---- MODULE Spec2Model ----
(***************************************************************************)
(* GraphMemDB (prototype/database/src/GraphMemDB.ts): the node store, its  *)
(* type, property and edge indexes, traversal, and the cached query        *)
(* execution.                                                              *)
(* AIQCompiler (prototype/database/src/AIQCompiler.ts): parse, which turns *)
(* a query text into the Query that executeQuery runs.                     *)
(***************************************************************************)
EXTENDS Integers, Sequences, FiniteSets, TLC

VARIABLES
    nodes,          \* Map<string, GraphNode>
    typeIndex,      \* Map<string, Set<string>>
    edgeIndex,      \* Map<string, Set<string>>
    propertyIndex,  \* Map<string, Map<any, Set<string>>>
    cache,          \* Map<string, {data, ttl, timestamp}>
    now,            \* Date.now()
    ret,            \* what the last executeQuery call did and returned
    reinserted      \* history: addNode was called for an id the store held

vars == <<nodes, typeIndex, edgeIndex, propertyIndex, cache, now, ret, reinserted>>

(***************************************************************************)
(* Bounds of the model.                                                    *)
(***************************************************************************)
\* longest edge list of a node handed to addNode
MaxEdges == 1

(***************************************************************************)
(* JavaScript values: a tagged record per kind.                            *)
(***************************************************************************)
Num(n) == [kind |-> "number", n |-> n]
Str(s) == [kind |-> "string", s |-> s]
Undefined == [kind |-> "undefined"]

Digits == <<"0", "1", "2", "3", "4", "5", "6", "7", "8", "9">>

\* Number.prototype.toString of a non-negative integer
RECURSIVE Decimal(_)
Decimal(n) ==
    IF n < 10 THEN Digits[n + 1]
    ELSE Decimal(n \div 10) \o Digits[(n % 10) + 1]

\* String(v) of a string or a non-negative integer
String(v) == IF v.kind = "number" THEN Decimal(v.n) ELSE v.s

Range(s) == {s[i] : i \in DOMAIN s}

\* Set.prototype.add: a Set iterates in insertion order, and adding a member
\* again leaves it where it is
SetAdd(set, x) == IF x \in Range(set) THEN set ELSE Append(set, x)

\* Map.prototype.get, undefined when the key is absent
MapGet(map, k) == IF k \in DOMAIN map THEN map[k] ELSE Undefined

\* Map.prototype.set
MapSet(map, k, v) == (k :> v) @@ map

EmptyMap == <<>>

(***************************************************************************)
(* The nodes the callers insert.                                           *)
(***************************************************************************)
Ids == {Num(1), Str("1"), Str("2")}
Types == {"user", "order"}
PropKeys == {"status"}
PropValues == {Str("active"), Str("inactive")}
Relationships == {"HAS_ORDER"}

RECURSIVE SeqsUpTo(_, _)
SeqsUpTo(S, n) ==
    IF n = 0 THEN {<<>>}
    ELSE LET shorter == SeqsUpTo(S, n - 1)
         IN  shorter \cup {Append(s, x) : s \in shorter, x \in S}

\* a node has a value for every property key and up to MaxEdges edges, each
\* one to id 2
GraphNode ==
    LET GraphEdge == [relationship : Relationships, target : {Num(2)}]
    IN  [id : Ids, type : Types, properties : [PropKeys -> PropValues],
         edges : SeqsUpTo(GraphEdge, MaxEdges)]

(***************************************************************************)
(* addNode                                                                 *)
(***************************************************************************)
\* the index set under key k, a new Set() when the index has none yet
\* (the "if (!index.has(k)) index.set(k, new Set())" of lines 30-32, 41-43, 50-52)
IndexSet(index, k) == IF k \in DOMAIN index THEN index[k] ELSE <<>>

\* a slip in lines 30-33: a fresh Set on every insertion, dropping the ids
\* the type already had
AddToTypeIndexFresh(index, node, nodeId) ==
    MapSet(index, node.type, <<nodeId>>)

\* lines 30-33: the type index with the node's id entered under the node's type
AddToTypeIndex(index, node, nodeId) ==
    MapSet(index, node.type, SetAdd(IndexSet(index, node.type), nodeId))

\* lines 36-45: the property index with the id entered under every
\* (key, value) of the node's properties
AddToPropertyIndex(index, node, nodeId) ==
    [key \in (DOMAIN index) \cup (DOMAIN node.properties) |->
        IF key \in DOMAIN node.properties
        THEN LET propIndex == IF key \in DOMAIN index THEN index[key] ELSE EmptyMap
                 value == node.properties[key]
             IN  MapSet(propIndex, value, SetAdd(IndexSet(propIndex, value), nodeId))
        ELSE index[key]]

\* line 49: the edge index key `${nodeId}:${edge.relationship}`
EdgeKey(nodeId, relationship) == nodeId \o ":" \o relationship

\* lines 48-54: the edge index with every edge's target entered, in edge order
RECURSIVE AddToEdgeIndex(_, _, _)
AddToEdgeIndex(index, edges, nodeId) ==
    IF edges = <<>> THEN index
    ELSE LET edge == Head(edges)
             edgeKey == EdgeKey(nodeId, edge.relationship)
         IN  AddToEdgeIndex(
                 MapSet(index, edgeKey,
                        SetAdd(IndexSet(index, edgeKey), String(edge.target))),
                 Tail(edges), nodeId)

\* a slip in line 27: the record is stored only when the id is new
StoreNodeOnce(map, nodeId, node) ==
    IF nodeId \in DOMAIN map THEN map ELSE MapSet(map, nodeId, node)

\* line 27, this.nodes.set(nodeId, node): the latest record replaces the old
StoreNode(map, nodeId, node) == MapSet(map, nodeId, node)

\* lines 14-20: the collections of a new GraphMemDB (the cache apart)
EmptyDb ==
    [nodes |-> EmptyMap, typeIndex |-> EmptyMap, edgeIndex |-> EmptyMap,
     propertyIndex |-> EmptyMap]

\* lines 25-55: the collections after addNode(node)
addNode(db, node) ==
    LET nodeId == String(node.id)
    IN  [nodes |-> StoreNode(db.nodes, nodeId, node),
         typeIndex |-> AddToTypeIndex(db.typeIndex, node, nodeId),
         propertyIndex |-> AddToPropertyIndex(db.propertyIndex, node, nodeId),
         edgeIndex |-> AddToEdgeIndex(db.edgeIndex, node.edges, nodeId)]

\* a slip in lines 25-55: addNode drops the cached results
AddNodeInvalidating(node) ==
    LET nodeId == String(node.id)
    IN  /\ nodes' = StoreNode(nodes, nodeId, node)
        /\ typeIndex' = AddToTypeIndex(typeIndex, node, nodeId)
        /\ propertyIndex' = AddToPropertyIndex(propertyIndex, node, nodeId)
        /\ edgeIndex' = AddToEdgeIndex(edgeIndex, node.edges, nodeId)
        /\ reinserted' = (reinserted \/ nodeId \in DOMAIN nodes)
        /\ cache' = EmptyMap
        /\ UNCHANGED <<now, ret>>

\* a call of addNode(node), lines 25-55
AddNode(node) ==
    LET nodeId == String(node.id)
    IN  /\ nodes' = StoreNode(nodes, nodeId, node)
        /\ typeIndex' = AddToTypeIndex(typeIndex, node, nodeId)
        /\ propertyIndex' = AddToPropertyIndex(propertyIndex, node, nodeId)
        /\ edgeIndex' = AddToEdgeIndex(edgeIndex, node.edges, nodeId)
        /\ reinserted' = (reinserted \/ nodeId \in DOMAIN nodes)
        /\ UNCHANGED <<cache, now, ret>>

(***************************************************************************)
(* The lookups                                                             *)
(***************************************************************************)
\* lines 60-62
getNode(id) == MapGet(nodes, String(id))

\* lines 71-73 and 86-88: the ids of an index set mapped to their nodes, the
\* ids the node collection does not hold dropped
NodesOf(nodeIds) ==
    LET IsNode(node) == node # Undefined
    IN  SelectSeq([i \in DOMAIN nodeIds |-> MapGet(nodes, nodeIds[i])], IsNode)

\* lines 67-74
getNodesByType(type) ==
    IF type \notin DOMAIN typeIndex THEN <<>>
    ELSE NodesOf(typeIndex[type])

\* lines 79-89
findNodesByProperty(key, value) ==
    IF key \notin DOMAIN propertyIndex THEN <<>>
    ELSE IF value \notin DOMAIN propertyIndex[key] THEN <<>>
         ELSE NodesOf(propertyIndex[key][value])

\* ret while no call has been recorded
NoCall == [op |-> "none"]

(***************************************************************************)
(* traverse, lines 94-130                                                  *)
(***************************************************************************)
\* a slip in line 114: the start node, at depth 0, is collected too
CollectsFromStart(depth) == depth >= 0

\* line 114: only nodes reached at depth 1 or more are results
Collects(depth) == depth > 0

\* a slip in line 120: every edge is followed, whatever its relationship
FollowsAny(relationships, edge) == TRUE

\* line 120, relationships.includes(edge.relationship)
Follows(relationships, edge) == edge.relationship \in Range(relationships)

\* lines 119-126: the queue entries pushed for a node's edges, in edge order
RECURSIVE Pushes(_, _, _)
Pushes(edges, relationships, depth) ==
    IF edges = <<>> THEN <<>>
    ELSE LET rest == Pushes(Tail(edges), relationships, depth)
         IN  IF Follows(relationships, Head(edges))
             THEN <<[nodeId |-> String(Head(edges).target), depth |-> depth + 1]>>
                     \o rest
             ELSE rest

\* a slip in line 108: an entry at depth maxDepth is dropped as well
RECURSIVE TraverseLoopShallow(_, _, _, _, _)
TraverseLoopShallow(queue, visited, results, relationships, maxDepth) ==
    IF queue = <<>> THEN results
    ELSE LET nodeId == Head(queue).nodeId
             depth == Head(queue).depth
             rest == Tail(queue)
         IN  IF nodeId \in visited \/ depth >= maxDepth
             THEN TraverseLoopShallow(rest, visited, results, relationships,
                                      maxDepth)
             ELSE LET node == MapGet(nodes, nodeId)
                  IN  IF node = Undefined
                      THEN TraverseLoopShallow(rest, visited \cup {nodeId},
                                               results, relationships, maxDepth)
                      ELSE TraverseLoopShallow(
                               rest \o Pushes(node.edges, relationships, depth),
                               visited \cup {nodeId},
                               IF Collects(depth) THEN Append(results, node)
                               ELSE results,
                               relationships, maxDepth)

\* lines 105-127: the while loop, from a queue, a visited set and the results
\* so far to the final results
RECURSIVE TraverseLoop(_, _, _, _, _)
TraverseLoop(queue, visited, results, relationships, maxDepth) ==
    IF queue = <<>> THEN results
    ELSE LET nodeId == Head(queue).nodeId
             depth == Head(queue).depth
             rest == Tail(queue)
         IN  IF nodeId \in visited \/ depth > maxDepth
             THEN TraverseLoop(rest, visited, results, relationships, maxDepth)
             ELSE LET node == MapGet(nodes, nodeId)
                  IN  IF node = Undefined
                      THEN TraverseLoop(rest, visited \cup {nodeId}, results,
                                        relationships, maxDepth)
                      ELSE TraverseLoop(
                               rest \o Pushes(node.edges, relationships, depth),
                               visited \cup {nodeId},
                               IF Collects(depth) THEN Append(results, node)
                               ELSE results,
                               relationships, maxDepth)

\* lines 94-130
traverse(startNodeId, relationships, maxDepth) ==
    TraverseLoop(<<[nodeId |-> String(startNodeId), depth |-> 0]>>, {}, <<>>,
                 relationships, maxDepth)

\* a call of traverse, its result kept in ret. traverse changes nothing of
\* the store, so a call is the same whatever calls came before: one call per
\* behaviour covers them all
Traverse(startNodeId, relationships, maxDepth) ==
    /\ ret = NoCall
    /\ ret' = [op |-> "traverse", startNodeId |-> startNodeId,
               relationships |-> relationships, maxDepth |-> maxDepth,
               rows |-> traverse(startNodeId, relationships, maxDepth)]
    /\ UNCHANGED <<nodes, typeIndex, edgeIndex, propertyIndex, cache, now,
                   reinserted>>

(***************************************************************************)
(* The values of an AIQQuery (types.ts lines 48-68)                        *)
(***************************************************************************)
Null == [kind |-> "null"]
Bool(b) == [kind |-> "boolean", b |-> b]
NaN == [kind |-> "NaN"]
PlusInfinity == [kind |-> "Infinity"]
MinusInfinity == [kind |-> "-Infinity"]
\* a number that is not an integer, num / den in lowest terms
Fraction(num, den) == [kind |-> "fraction", num |-> num, den |-> den]

\* a Date, by the text it was built from; every new Date(...) is an object
\* of its own
Date(text) == [kind |-> "date", text |-> text]

\* Date.prototype.valueOf of the two ISO date texts the model uses, 2024-01-01
\* and 2024-06-30, in days since the epoch
DayOf(text) == IF text = "2024-01-01" THEN 19723 ELSE 19904

\* a string[]
Array(items) == [kind |-> "array", items |-> items]

\* an object: its own properties in insertion order, the order of
\* Object.entries and of JSON.stringify
Entry(key, value) == [key |-> key, value |-> value]
Object(entries) == [kind |-> "object", entries |-> entries]

\* ToBoolean, as in if (v), !v and v || w
Truthy(v) ==
    CASE v.kind \in {"undefined", "null", "NaN"} -> FALSE
      [] v.kind = "boolean" -> v.b
      [] v.kind = "number" -> v.n # 0
      [] v.kind = "string" -> v.s # ""
      [] OTHER -> TRUE

\* Object.entries of a clause: the entries of an object, none for a number
\* or a boolean
Entries(v) == IF v.kind = "object" THEN v.entries ELSE <<>>

\* v.key, undefined when v has no such property; v?.key also when v is
\* undefined or null
Get(v, key) ==
    IF v.kind = "object" /\ \E i \in DOMAIN v.entries : v.entries[i].key = key
    THEN v.entries[CHOOSE i \in DOMAIN v.entries : v.entries[i].key = key].value
    ELSE Undefined

\* typeof v === 'object'
TypeofObject(v) == v.kind \in {"object", "array", "null", "date"}

\* a === b: primitives by kind and value, NaN equal to nothing, objects and
\* arrays by reference, and the two sides never share a reference here
StrictEquals(a, b) ==
    /\ a.kind \notin {"object", "array", "NaN", "date"}
    /\ a = b

\* node.properties[key]
PropertyOf(node, key) ==
    IF key \in DOMAIN node.properties THEN node.properties[key] ELSE Undefined

\* a < b and a == b under <= and >=, after both operands are converted to
\* numbers: true is 1, false and null are 0, an operand that is undefined or a
\* string that is no number is NaN (every comparison is false), and a Date is
\* its time in ms, which is above every number of the model
JsLess(a, b) ==
    LET ToNumber(v) == CASE v.kind = "boolean" -> Num(IF v.b THEN 1 ELSE 0)
                         [] v.kind = "null" -> Num(0)
                         [] OTHER -> v
        x == ToNumber(a)
        y == ToNumber(b)
    IN  CASE x.kind = "number" /\ y.kind = "number" -> x.n < y.n
          [] x.kind = "date" /\ y.kind = "date" -> DayOf(x.text) < DayOf(y.text)
          [] x.kind = "number" /\ y.kind = "date" -> TRUE
          [] x.kind = "-Infinity" /\ y.kind \in {"number", "Infinity"} -> TRUE
          [] x.kind = "number" /\ y.kind = "Infinity" -> TRUE
          [] OTHER -> FALSE

JsSame(a, b) ==
    LET ToNumber(v) == CASE v.kind = "boolean" -> Num(IF v.b THEN 1 ELSE 0)
                         [] v.kind = "null" -> Num(0)
                         [] OTHER -> v
        x == ToNumber(a)
        y == ToNumber(b)
    IN  \/ x.kind \in {"number", "Infinity", "-Infinity"} /\ x = y
        \/ x.kind = "date" /\ y.kind = "date" /\ DayOf(x.text) = DayOf(y.text)

(***************************************************************************)
(* JSON.stringify(query), line 169                                         *)
(***************************************************************************)
\* the JSON of a value, as the value JSON.parse would give back: a property
\* whose value is undefined is left out, NaN and the infinities become null
RECURSIVE JsonOf(_)
JsonOf(v) ==
    CASE v.kind = "object" ->
            LET Kept(e) == e.value.kind # "undefined"
                kept == SelectSeq(v.entries, Kept)
            IN  Object([i \in DOMAIN kept |->
                           Entry(kept[i].key, JsonOf(kept[i].value))])
      [] v.kind \in {"NaN", "Infinity", "-Infinity"} -> Null
      [] v.kind = "date" -> Str(v.text \o "T00:00:00.000Z")
      [] OTHER -> v

\* two queries have the same cache key exactly when JSON.stringify gives the
\* same text for both; a clause that is undefined is left out of the text
CacheKey(query) ==
    [name |-> JsonOf(query.name), intent |-> JsonOf(query.intent),
     operation |-> query.operation, target |-> query.target,
     where |-> JsonOf(query.where), compute |-> JsonOf(query.compute),
     filter |-> JsonOf(query.filter), sort |-> JsonOf(query.sort),
     limit |-> JsonOf(query.limit)]

(***************************************************************************)
(* The cache, lines 340-359                                                *)
(***************************************************************************)
\* line 208, the TTL of every entry, in ms
TTL == 300000

\* Map.prototype.delete
MapDelete(map, k) == [x \in (DOMAIN map) \ {k} |-> map[x]]

\* lines 344-345: the entry is older than its ttl
Expired(cached, time) == time - cached.timestamp > cached.ttl

\* a slip in lines 344-346: a lookup sweeps every expired entry out
getFromCacheSweeping(map, key, time) ==
    LET swept == [k \in {x \in DOMAIN map : ~Expired(map[x], time)} |-> map[k]]
    IN  IF key \notin DOMAIN map
        THEN [found |-> FALSE, data |-> <<>>, cache |-> swept, evicted |-> FALSE]
        ELSE IF Expired(map[key], time)
             THEN [found |-> FALSE, data |-> <<>>, cache |-> swept,
                   evicted |-> TRUE]
             ELSE [found |-> TRUE, data |-> map[key].data, cache |-> swept,
                   evicted |-> FALSE]

\* lines 340-351: what the lookup returns (found: it returns the entry's data,
\* an array, which is truthy; otherwise null) and the cache it leaves
getFromCache(map, key, time) ==
    IF key \notin DOMAIN map
    THEN [found |-> FALSE, data |-> <<>>, cache |-> map, evicted |-> FALSE]
    ELSE IF Expired(map[key], time)
         THEN [found |-> FALSE, data |-> <<>>, cache |-> MapDelete(map, key),
               evicted |-> TRUE]
         ELSE [found |-> TRUE, data |-> map[key].data, cache |-> map,
               evicted |-> FALSE]

\* lines 353-359
setCache(map, key, data, ttl, time) ==
    MapSet(map, key, [data |-> data, ttl |-> ttl, timestamp |-> time])

(***************************************************************************)
(* executeFetch, lines 213-223, and executeTraverse, lines 225-232         *)
(***************************************************************************)
\* the result of a step that returns rows, and of one that throws
Returned(rows) == [error |-> "none", rows |-> rows]
Thrown(error) == [error |-> error, rows |-> <<>>]

\* lines 217-219: the where entries applied one after the other
RECURSIVE FetchWhere(_, _)
FetchWhere(results, entries) ==
    IF entries = <<>> THEN results
    ELSE LET key == Head(entries).key
             value == Head(entries).value
             Keep(node) == StrictEquals(PropertyOf(node, key), value)
         IN  FetchWhere(SelectSeq(results, Keep), Tail(entries))

\* lines 213-223
executeFetch(query) ==
    LET results == getNodesByType(query.target)
    IN  IF Truthy(query.where)
        THEN FetchWhere(results, Entries(query.where))
        ELSE results

\* line 97, the default maxDepth
DefaultMaxDepth == 2

\* line 230, query.where.path || []
PathOf(query) ==
    IF Truthy(Get(query.where, "path")) THEN Get(query.where, "path").items
    ELSE <<>>

\* line 226, !query.where?.start
StartMissing(query) == ~Truthy(Get(query.where, "start"))

\* a slip in line 230: the traversal stops one hop from the start
executeTraverseOneHop(query) ==
    IF StartMissing(query)
    THEN Thrown("GRAPH_TRAVERSE requires start node")
    ELSE Returned(traverse(Get(query.where, "start"), PathOf(query), 1))

\* lines 225-232
executeTraverse(query) ==
    IF StartMissing(query)
    THEN Thrown("GRAPH_TRAVERSE requires start node")
    ELSE Returned(traverse(Get(query.where, "start"), PathOf(query),
                           DefaultMaxDepth))

(***************************************************************************)
(* applyFilters, lines 234-266                                             *)
(***************************************************************************)
\* lines 242-258: one operator of a condition holds of the node's value;
\* an operator that is none of the five lets every node pass
OperatorHolds(op, nodeValue, compareValue) ==
    CASE op = "$gt" -> JsLess(compareValue, nodeValue)
      [] op = "$gte" -> JsLess(compareValue, nodeValue) \/ JsSame(nodeValue, compareValue)
      [] op = "$lt" -> JsLess(nodeValue, compareValue)
      [] op = "$lte" -> JsLess(nodeValue, compareValue) \/ JsSame(nodeValue, compareValue)
      [] op = "$ne" -> ~StrictEquals(nodeValue, compareValue)
      [] OTHER -> TRUE

\* lines 236-263 for one node: "keep", "drop", or "throw" when the loop
\* reaches a null condition (Object.entries(null) is a TypeError)
RECURSIVE FilterNode(_, _)
FilterNode(node, entries) ==
    IF entries = <<>> THEN "keep"
    ELSE LET key == Head(entries).key
             condition == Head(entries).value
         IN  IF TypeofObject(condition)
             THEN IF condition.kind = "null" THEN "throw"
                  ELSE IF \A i \in DOMAIN Entries(condition) :
                             OperatorHolds(Entries(condition)[i].key,
                                           PropertyOf(node, key),
                                           Entries(condition)[i].value)
                       THEN FilterNode(node, Tail(entries))
                       ELSE "drop"
             ELSE IF StrictEquals(PropertyOf(node, key), condition)
                  THEN FilterNode(node, Tail(entries))
                  ELSE "drop"

\* lines 234-266
applyFilters(rows, filters) ==
    LET Keep(node) == FilterNode(node, Entries(filters)) = "keep"
    IN  IF \E i \in DOMAIN rows : FilterNode(rows[i], Entries(filters)) = "throw"
        THEN Thrown("TypeError: Cannot convert undefined or null to object")
        ELSE Returned(SelectSeq(rows, Keep))

(***************************************************************************)
(* applySort, lines 268-276                                                *)
(***************************************************************************)
\* lines 271-274: the comparator's result for (a, b)
Comparison(a, b, sort) ==
    LET aVal == PropertyOf(a, Get(sort, "field").s)
        bVal == PropertyOf(b, Get(sort, "field").s)
        comparison == IF JsLess(aVal, bVal) THEN -1
                      ELSE IF JsLess(bVal, aVal) THEN 1 ELSE 0
    IN  IF Get(sort, "order") = Str("DESC") THEN -comparison ELSE comparison

\* a slip: an unstable sort, x goes before the elements it ties with
RECURSIVE InsertSortedTiesFirst(_, _, _)
InsertSortedTiesFirst(sorted, x, sort) ==
    IF sorted = <<>> THEN <<x>>
    ELSE IF Comparison(sorted[Len(sorted)], x, sort) < 0
         THEN Append(sorted, x)
         ELSE Append(InsertSortedTiesFirst(SubSeq(sorted, 1, Len(sorted) - 1),
                                           x, sort),
                     sorted[Len(sorted)])

\* Array.prototype.sort is stable: x goes behind the last element that the
\* comparator does not put after it
RECURSIVE InsertSorted(_, _, _)
InsertSorted(sorted, x, sort) ==
    IF sorted = <<>> THEN <<x>>
    ELSE IF Comparison(sorted[Len(sorted)], x, sort) <= 0
         THEN Append(sorted, x)
         ELSE Append(InsertSorted(SubSeq(sorted, 1, Len(sorted) - 1), x, sort),
                     sorted[Len(sorted)])

\* lines 268-276
RECURSIVE applySort(_, _)
applySort(rows, sort) ==
    IF rows = <<>> THEN <<>>
    ELSE InsertSorted(applySort(SubSeq(rows, 1, Len(rows) - 1), sort),
                      rows[Len(rows)], sort)

\* line 198, results.slice(0, query.limit) for a limit of 0 or more
Slice(rows, limit) ==
    SubSeq(rows, 1, IF limit.n < Len(rows) THEN limit.n ELSE Len(rows))

(***************************************************************************)
(* applyCompute, lines 278-314                                             *)
(***************************************************************************)
RECURSIVE Gcd(_, _)
Gcd(a, b) == IF b = 0 THEN a ELSE Gcd(b, a % b)

Abs(n) == IF n < 0 THEN -n ELSE n

\* a + b on numbers
Plus(a, b) ==
    CASE a.kind = "number" /\ b.kind = "number" -> Num(a.n + b.n)
      [] a.kind = "NaN" \/ b.kind = "NaN" -> NaN
      [] a.kind = "number" -> b
      [] b.kind = "number" -> a
      [] a = b -> a
      [] OTHER -> NaN

\* a slip in line 298: the quotient over zero rows is coerced to 0
DivideOrZero(sum, count) ==
    IF sum.kind # "number" THEN sum
    ELSE IF count = 0 THEN Num(0)
         ELSE IF sum.n % count = 0 THEN Num(sum.n \div count)
              ELSE LET g == Gcd(Abs(sum.n), count)
                   IN  Fraction(sum.n \div g, count \div g)

\* sum / count for an integer sum and a count of rows: 0 / 0 is NaN
Divide(sum, count) ==
    IF sum.kind # "number" THEN sum
    ELSE IF count = 0
         THEN (IF sum.n = 0 THEN NaN
               ELSE IF sum.n > 0 THEN PlusInfinity ELSE MinusInfinity)
         ELSE IF sum.n % count = 0 THEN Num(sum.n \div count)
              ELSE LET g == Gcd(Abs(sum.n), count)
                   IN  Fraction(sum.n \div g, count \div g)

\* v || w
OrElse(v, w) == IF Truthy(v) THEN v ELSE w

\* node.properties[field] for the field of a compute expression
FieldOf(node, field) ==
    IF field.kind = "string" THEN PropertyOf(node, field.s) ELSE Undefined

\* a slip in line 291: the value is added as it is, without || 0
RECURSIVE SumOfStrict(_, _)
SumOfStrict(rows, field) ==
    IF rows = <<>> THEN Num(0)
    ELSE Plus(SumOfStrict(SubSeq(rows, 1, Len(rows) - 1), field),
              FieldOf(rows[Len(rows)], field))

\* lines 290-293: nodes.reduce((sum, node) => sum + (value || 0), 0)
RECURSIVE SumOf(_, _)
SumOf(rows, field) ==
    IF rows = <<>> THEN Num(0)
    ELSE Plus(SumOf(SubSeq(rows, 1, Len(rows) - 1), field),
              OrElse(FieldOf(rows[Len(rows)], field), Num(0)))

\* Math.min and Math.max of two numbers
MathMin(a, b) == IF a.kind = "NaN" \/ b.kind = "NaN" THEN NaN
                 ELSE IF JsLess(b, a) THEN b ELSE a
MathMax(a, b) == IF a.kind = "NaN" \/ b.kind = "NaN" THEN NaN
                 ELSE IF JsLess(a, b) THEN b ELSE a

\* a slip in lines 301-303: the minimum starts from 0
RECURSIVE MinOfFromZero(_, _)
MinOfFromZero(rows, field) ==
    IF rows = <<>> THEN Num(0)
    ELSE MathMin(MinOfFromZero(Tail(rows), field),
                 OrElse(FieldOf(Head(rows), field), PlusInfinity))

\* lines 301-303: Math.min(...nodes.map(node => value || Infinity))
RECURSIVE MinOf(_, _)
MinOf(rows, field) ==
    IF rows = <<>> THEN PlusInfinity
    ELSE MathMin(MinOf(Tail(rows), field),
                 OrElse(FieldOf(Head(rows), field), PlusInfinity))

\* lines 306-308: Math.max(...nodes.map(node => value || -Infinity))
RECURSIVE MaxOf(_, _)
MaxOf(rows, field) ==
    IF rows = <<>> THEN MinusInfinity
    ELSE MathMax(MaxOf(Tail(rows), field),
                 OrElse(FieldOf(Head(rows), field), MinusInfinity))

Functions == {"COUNT", "SUM", "AVG", "MIN", "MAX"}

\* lines 285-310: the value of one compute expression
Aggregate(rows, expr) ==
    LET func == Get(expr, "function")
        field == Get(expr, "field")
    IN  CASE func = Str("COUNT") -> Num(Len(rows))
          [] func = Str("SUM") -> SumOf(rows, field)
          [] func = Str("AVG") -> Divide(SumOf(rows, field), Len(rows))
          [] func = Str("MIN") -> MinOf(rows, field)
          [] func = Str("MAX") -> MaxOf(rows, field)
          [] OTHER -> Undefined

\* lines 281-311: the fields of the result row, one per expression with a
\* known function, in the order of the expressions
RECURSIVE ComputedEntries(_, _)
ComputedEntries(rows, entries) ==
    IF entries = <<>> THEN <<>>
    ELSE LET func == Get(Head(entries).value, "function")
             rest == ComputedEntries(rows, Tail(entries))
         IN  IF func.kind = "string" /\ func.s \in Functions
             THEN <<Entry(Head(entries).key, Aggregate(rows, Head(entries).value))>>
                     \o rest
             ELSE rest

\* lines 278-314: expr.function of an expression that is null or undefined is
\* a TypeError; otherwise exactly one row
applyCompute(rows, compute) ==
    IF \E i \in DOMAIN Entries(compute) :
          Entries(compute)[i].value.kind \in {"null", "undefined"}
    THEN Thrown("TypeError: Cannot read properties of null or undefined")
    ELSE Returned(<<Object(ComputedEntries(rows, Entries(compute)))>>)

(***************************************************************************)
(* executeQuery, lines 168-211                                             *)
(***************************************************************************)
\* a slip in lines 182-183: an operation that is not implemented is run as FETCH
DispatchDefaultFetch(query) ==
    CASE query.operation = "GRAPH_TRAVERSE" -> executeTraverse(query)
      [] OTHER -> Returned(executeFetch(query))

\* lines 175-184: the switch on the operation
Dispatch(query) ==
    CASE query.operation = "FETCH" -> Returned(executeFetch(query))
      [] query.operation = "GRAPH_TRAVERSE" -> executeTraverse(query)
      [] OTHER -> Thrown("Unsupported operation: " \o query.operation)

\* the next step of lines 186-205, skipped once a step has thrown
Then(result, clause, Step(_)) ==
    IF result.error # "none" \/ ~Truthy(clause) THEN result ELSE Step(result.rows)

\* lines 173-205: the rows computed from the store, or the error thrown
Evaluate(query) ==
    LET Filter(rows) == applyFilters(rows, query.filter)
        Sort(rows) == Returned(applySort(rows, query.sort))
        Limit(rows) == Returned(Slice(rows, query.limit))
        Compute(rows) == applyCompute(rows, query.compute)
    IN  Then(Then(Then(Then(Dispatch(query),
                            query.filter, Filter),
                       query.sort, Sort),
                  query.limit, Limit),
             query.compute, Compute)

\* the index scans and traversals a call makes when it misses the cache
ScansOf(query) ==
    IF \/ query.operation = "FETCH"
       \/ query.operation = "GRAPH_TRAVERSE" /\ ~StartMissing(query)
    THEN 1 ELSE 0

\* a slip in lines 170-171: an entry is served whatever its age
LookupIgnoringAge(map, key, time) ==
    IF key \in DOMAIN map
    THEN [found |-> TRUE, data |-> map[key].data, cache |-> map,
          evicted |-> FALSE]
    ELSE [found |-> FALSE, data |-> <<>>, cache |-> map, evicted |-> FALSE]

\* line 170, the lookup that opens executeQuery
Lookup(map, key, time) == getFromCache(map, key, time)

\* a slip: the cache entry is written before the steps that can throw
CacheWrittenBeforeThrow(map, key, time) == setCache(map, key, <<>>, TTL, time)

\* lines 183 and 227: a throw leaves executeQuery before line 208, so the
\* cache stays as the lookup left it
CacheAfterThrow(map, key, time) == map

\* what a call did: served from the cache (hit), removed an expired entry
\* (evicted), threw (error) or returned rows, and the scans it made
Outcome(query, hit, evicted, error, rows, scans) ==
    [op |-> "executeQuery", query |-> query, hit |-> hit, evicted |-> evicted,
     error |-> error, rows |-> rows, scans |-> scans]

\* a call of executeQuery(query), lines 168-211
ExecuteQuery(query) ==
    LET cacheKey == CacheKey(query)
        cached == Lookup(cache, cacheKey, now)
        result == Evaluate(query)
    IN  /\ IF cached.found
           THEN /\ cache' = cached.cache
                /\ ret' = Outcome(query, TRUE, FALSE, "none", cached.data, 0)
           ELSE IF result.error # "none"
                THEN /\ cache' = CacheAfterThrow(cached.cache, cacheKey, now)
                     /\ ret' = Outcome(query, FALSE, cached.evicted, result.error,
                                       <<>>, ScansOf(query))
                ELSE /\ cache' = setCache(cached.cache, cacheKey, result.rows,
                                          TTL, now)
                     /\ ret' = Outcome(query, FALSE, cached.evicted, "none",
                                       result.rows, ScansOf(query))
        /\ UNCHANGED <<nodes, typeIndex, edgeIndex, propertyIndex, now, reinserted>>

\* Date.now() moves on by d ms
Tick(d) ==
    /\ now' = now + d
    /\ UNCHANGED <<nodes, typeIndex, edgeIndex, propertyIndex, cache, ret,
                   reinserted>>


(***************************************************************************)
(* getStats, lines 364-378: the sizes of the maps; nodesByType gives the   *)
(* size of the id set of every type of the type index                      *)
(***************************************************************************)
getStats ==
    [totalNodes |-> Cardinality(DOMAIN nodes),
     nodesByType |-> [type \in DOMAIN typeIndex |-> Len(typeIndex[type])],
     cacheSize |-> Cardinality(DOMAIN cache),
     indexes |-> [types |-> Cardinality(DOMAIN typeIndex),
                  properties |-> Cardinality(DOMAIN propertyIndex),
                  edges |-> Cardinality(DOMAIN edgeIndex)]]

(***************************************************************************)
(* clear, lines 383-389                                                    *)
(***************************************************************************)
\* a slip in line 388: clear leaves the cache as it is
ClearKeepingCache ==
    /\ nodes' = EmptyMap
    /\ typeIndex' = EmptyMap
    /\ edgeIndex' = EmptyMap
    /\ propertyIndex' = EmptyMap
    /\ cache' = cache
    /\ reinserted' = FALSE
    /\ UNCHANGED <<now, ret>>

Clear ==
    /\ nodes' = EmptyMap
    /\ typeIndex' = EmptyMap
    /\ edgeIndex' = EmptyMap
    /\ propertyIndex' = EmptyMap
    /\ cache' = EmptyMap
    /\ reinserted' = FALSE
    /\ UNCHANGED <<now, ret>>

(***************************************************************************)
(* The store: constructed empty (lines 14-20), then any sequence of        *)
(* addNode and clear calls.                                                *)
(***************************************************************************)
Init ==
    /\ nodes = EmptyMap
    /\ typeIndex = EmptyMap
    /\ edgeIndex = EmptyMap
    /\ propertyIndex = EmptyMap
    /\ cache = EmptyMap
    /\ now = 0
    /\ ret = NoCall
    /\ reinserted = FALSE

Next ==
    \/ \E node \in GraphNode : AddNode(node)
    \/ Clear

Spec == Init /\ [][Next]_vars

(***************************************************************************)
(* Traversal: a store holding a graph over three nodes, then any traverse  *)
(* calls.                                                                  *)
(***************************************************************************)
\* deepest maxDepth handed to traverse
MaxDepth == 2

User1 == Str("user:1")
Order101 == Str("order:101")
Product5 == Str("product:5")

HasOrder(target) == [relationship |-> "HAS_ORDER", target |-> target]
Contains(target) == [relationship |-> "CONTAINS", target |-> target]

TraverseEdgeLists ==
    SeqsUpTo({HasOrder(User1), HasOrder(Order101), HasOrder(Product5),
              Contains(Product5)},
             MaxEdges)

TraverseNode(id, type, edges) ==
    [id |-> id, type |-> type, properties |-> EmptyMap, edges |-> edges]

\* the store after the addNode calls of a sequence of nodes
RECURSIVE DbAfter(_)
DbAfter(inserted) ==
    IF inserted = <<>> THEN EmptyDb
    ELSE addNode(DbAfter(SubSeq(inserted, 1, Len(inserted) - 1)),
                 inserted[Len(inserted)])

\* each of the three nodes inserted once, with some edge list, or not at all
TraverseGraphs ==
    {u \o o \o p :
        u \in {<<>>} \cup {<<TraverseNode(User1, "user", e)>> : e \in TraverseEdgeLists},
        o \in {<<>>} \cup {<<TraverseNode(Order101, "order", e)>> : e \in TraverseEdgeLists},
        p \in {<<>>} \cup {<<TraverseNode(Product5, "product", e)>> : e \in TraverseEdgeLists}}

InitTraverse ==
    /\ \E inserted \in TraverseGraphs :
          LET db == DbAfter(inserted)
          IN  /\ nodes = db.nodes
              /\ typeIndex = db.typeIndex
              /\ edgeIndex = db.edgeIndex
              /\ propertyIndex = db.propertyIndex
    /\ cache = EmptyMap
    /\ now = 0
    /\ ret = NoCall
    /\ reinserted = FALSE

NextTraverse ==
    \E startNodeId \in {User1, Order101, Product5} :
       \E relationships \in {<<>>, <<"HAS_ORDER">>, <<"CONTAINS">>,
                              <<"HAS_ORDER", "CONTAINS">>} :
          \E maxDepth \in 0..MaxDepth :
             Traverse(startNodeId, relationships, maxDepth)

SpecTraverse == InitTraverse /\ [][NextTraverse]_vars

(***************************************************************************)
(* traverse, one iteration of its loop at a time: the queue, the visited   *)
(* set and the results of the call in progress are kept in ret.  The       *)
(* stores have nodes 1 and 2, node 3 or not, and up to MaxLinks edges      *)
(* between them: self-loops, cycles, parallel edges, edges to an id that   *)
(* is not stored and edges with a relationship the call does not follow.   *)
(***************************************************************************)
\* the most edges of a store
MaxLinks == 3

InitSteps ==
    /\ \E absent \in BOOLEAN, a \in 0..MaxLinks, b \in 0..MaxLinks, c \in 0..MaxLinks :
          /\ a + b + c <= MaxLinks
          /\ LET edge == [relationship : {"KNOWS"}, target : {Num(1), Num(2), Num(3)}]
                            \cup {[relationship |-> "BLOCKS", target |-> Num(2)]}
             IN  \E ea \in [1..a -> edge], eb \in [1..b -> edge], ec \in [1..c -> edge] :
                    LET db == DbAfter(<<TraverseNode(Num(1), "user", ea),
                                        TraverseNode(Num(2), "user", eb)>>
                                      \o IF c = 0 /\ absent THEN <<>>
                                         ELSE <<TraverseNode(Num(3), "user", ec)>>)
                    IN  /\ nodes = db.nodes
                        /\ typeIndex = db.typeIndex
                        /\ edgeIndex = db.edgeIndex
                        /\ propertyIndex = db.propertyIndex
    /\ cache = EmptyMap
    /\ now = 0
    /\ ret = NoCall
    /\ reinserted = FALSE

\* lines 99-103: a call of traverse reaches its loop with the start in the queue
StartTraverse(startNodeId, relationships, maxDepth) ==
    /\ ret = NoCall
    /\ ret' = [op |-> "traversing", startNodeId |-> startNodeId,
               relationships |-> relationships, maxDepth |-> maxDepth,
               queue |-> <<[nodeId |-> String(startNodeId), depth |-> 0]>>,
               visited |-> {}, results |-> <<>>]
    /\ UNCHANGED <<nodes, typeIndex, edgeIndex, propertyIndex, cache, now,
                   reinserted>>

\* a slip in line 108: an entry is expanded whether its id was visited or not
TraverseStepRevisiting ==
    /\ ret.op = "traversing"
    /\ ret.queue # <<>>
    /\ LET nodeId == Head(ret.queue).nodeId
           depth == Head(ret.queue).depth
           rest == Tail(ret.queue)
           node == MapGet(nodes, nodeId)
       IN  ret' = IF depth > ret.maxDepth
                  THEN [ret EXCEPT !.queue = rest]
                  ELSE IF node = Undefined
                       THEN [ret EXCEPT !.queue = rest, !.visited = @ \cup {nodeId}]
                       ELSE [ret EXCEPT
                                !.queue = rest \o Pushes(node.edges,
                                                         ret.relationships, depth),
                                !.visited = @ \cup {nodeId},
                                !.results = IF Collects(depth) THEN Append(@, node)
                                            ELSE @]
    /\ UNCHANGED <<nodes, typeIndex, edgeIndex, propertyIndex, cache, now,
                   reinserted>>

\* a slip in line 121: the entries of a node's edges go to the front of the queue
TraverseStepDepthFirst ==
    /\ ret.op = "traversing"
    /\ ret.queue # <<>>
    /\ LET nodeId == Head(ret.queue).nodeId
           depth == Head(ret.queue).depth
           rest == Tail(ret.queue)
           node == MapGet(nodes, nodeId)
       IN  ret' = IF nodeId \in ret.visited \/ depth > ret.maxDepth
                  THEN [ret EXCEPT !.queue = rest]
                  ELSE IF node = Undefined
                       THEN [ret EXCEPT !.queue = rest, !.visited = @ \cup {nodeId}]
                       ELSE [ret EXCEPT
                                !.queue = Pushes(node.edges, ret.relationships,
                                                 depth) \o rest,
                                !.visited = @ \cup {nodeId},
                                !.results = IF Collects(depth) THEN Append(@, node)
                                            ELSE @]
    /\ UNCHANGED <<nodes, typeIndex, edgeIndex, propertyIndex, cache, now,
                   reinserted>>

\* lines 105-127: one iteration of the while loop
TraverseStep ==
    /\ ret.op = "traversing"
    /\ ret.queue # <<>>
    /\ LET nodeId == Head(ret.queue).nodeId
           depth == Head(ret.queue).depth
           rest == Tail(ret.queue)
           node == MapGet(nodes, nodeId)
       IN  ret' = IF nodeId \in ret.visited \/ depth > ret.maxDepth
                  THEN [ret EXCEPT !.queue = rest]
                  ELSE IF node = Undefined
                       THEN [ret EXCEPT !.queue = rest, !.visited = @ \cup {nodeId}]
                       ELSE [ret EXCEPT
                                !.queue = rest \o Pushes(node.edges,
                                                         ret.relationships, depth),
                                !.visited = @ \cup {nodeId},
                                !.results = IF Collects(depth) THEN Append(@, node)
                                            ELSE @]
    /\ UNCHANGED <<nodes, typeIndex, edgeIndex, propertyIndex, cache, now,
                   reinserted>>

\* lines 105 and 129: the queue is empty, the loop ends and the results are
\* returned
TraverseReturn ==
    /\ ret.op = "traversing"
    /\ ret.queue = <<>>
    /\ ret' = [op |-> "traverse", startNodeId |-> ret.startNodeId,
               relationships |-> ret.relationships, maxDepth |-> ret.maxDepth,
               rows |-> ret.results]
    /\ UNCHANGED <<nodes, typeIndex, edgeIndex, propertyIndex, cache, now,
                   reinserted>>

NextSteps ==
    \/ \E startNodeId \in {Num(1), Num(3)} : \E maxDepth \in {1, DefaultMaxDepth} :
          StartTraverse(startNodeId, <<"KNOWS">>, maxDepth)
    \/ TraverseStep
    \/ TraverseReturn

SpecSteps == InitSteps /\ [][NextSteps]_vars

\* traverse is synchronous: once called, its loop runs without interruption
\* until the queue is empty, and then the call returns
FairSteps == SpecSteps /\ WF_vars(TraverseStep) /\ WF_vars(TraverseReturn)

(***************************************************************************)
(* Cached query execution: addNode, clear and executeQuery calls as the    *)
(* clock moves on.                                                         *)
(***************************************************************************)
\* the clock moves at most this many times, by the TTL or by 1 ms more
MaxPeriods == 1

Query(operation, target, where, compute, filter) ==
    [name |-> Str("q"), intent |-> Str(""), operation |-> operation,
     target |-> target,
     where |-> where, compute |-> compute, filter |-> filter,
     sort |-> Undefined, limit |-> Undefined]

PathReferred == Entry("path", Array(<<"REFERRED">>))

FetchUsers == Query("FETCH", "user", Undefined, Undefined, Undefined)
\* the queries executed: FETCH user bare, with a null filter condition and
\* with a compute entry that is no expression; GRAPH_TRAVERSE without a WHERE
\* clause, without a start, and from each start id (a number, its string and
\* the empty string); and the operations the engine does not implement
Queries ==
    LET FetchNullFilter ==
            Query("FETCH", "user", Undefined, Undefined,
                  Object(<<Entry("status", Null)>>))
        FetchBadCompute ==
            Query("FETCH", "user", Undefined, Object(<<Entry("count", Null)>>),
                  Undefined)
        TraverseNoWhere ==
            Query("GRAPH_TRAVERSE", "user", Undefined, Undefined, Undefined)
        TraverseNoStart ==
            Query("GRAPH_TRAVERSE", "user", Object(<<PathReferred>>), Undefined,
                  Undefined)
        TraverseFrom(start) ==
            Query("GRAPH_TRAVERSE", "user",
                  Object(<<Entry("start", start), PathReferred>>), Undefined,
                  Undefined)
        Starts == {Num(0), Str("0"), Str("")}
        OtherOperations == {"INSERT", "UPDATE", "DELETE", "MERGE"}
    IN  {FetchUsers, FetchNullFilter, FetchBadCompute, TraverseNoWhere,
         TraverseNoStart}
           \cup {TraverseFrom(start) : start \in Starts}
           \cup {Query(operation, "user", Undefined, Undefined, Undefined) :
                    operation \in OtherOperations}

User0 ==
    [id |-> Num(0), type |-> "user",
     properties |-> [status |-> Str("active")],
     edges |-> <<[relationship |-> "REFERRED", target |-> Num(3)]>>]
User3 ==
    [id |-> Num(3), type |-> "user",
     properties |-> [status |-> Str("inactive")], edges |-> <<>>]

QueryNodes == {User0, User3}

NextQuery ==
    \/ \E node \in QueryNodes : AddNode(node)
    \/ Clear
    \/ \E d \in {TTL, TTL + 1} : now \div TTL < MaxPeriods /\ Tick(d)
    \/ \E query \in Queries : ExecuteQuery(query)

SpecQuery == Init /\ [][NextQuery]_vars

(***************************************************************************)
(* AIQCompiler (prototype/database/src/AIQCompiler.ts): a query text is a  *)
(* sequence of lines, a line a sequence of characters.                     *)
(***************************************************************************)
\* the character classes \s, \d and \w of the patterns
Class ==
    [space |-> {" "},
     digit |-> Range(Digits),
     word |-> {"a", "b", "c", "d", "e", "f", "g", "h", "i", "j", "k", "l", "m",
               "n", "o", "p", "q", "r", "s", "t", "u", "v", "w", "x", "y", "z",
               "A", "B", "C", "D", "E", "F", "G", "H", "I", "J", "K", "L", "M",
               "N", "O", "P", "Q", "R", "S", "T", "U", "V", "W", "X", "Y", "Z",
               "_"} \cup Range(Digits)]

\* the string of a sequence of characters
RECURSIVE Text(_)
Text(chars) == IF chars = <<>> THEN "" ELSE Head(chars) \o Text(Tail(chars))

\* the last position of the longest run of characters of a class that starts
\* at from; from - 1 when the run is empty
RunEnd(line, from, class) ==
    LET ends == {j \in (from - 1)..Len(line) :
                    \A k \in from..j : line[k] \in class}
    IN  CHOOSE j \in ends : \A k \in ends : k <= j

\* String.prototype.trim
Trim(line) ==
    LET lasts == {j \in 0..Len(line) :
                     \A k \in (j + 1)..Len(line) : line[k] \in Class.space}
    IN  SubSeq(line, RunEnd(line, 1, Class.space) + 1,
               CHOOSE j \in lasts : \A k \in lasts : j <= k)

\* String.prototype.indexOf from a position, 1-based; 0 when there is none.
\* line.includes(p) is IndexOf(line, p, 1) # 0 and line.startsWith(p) is
\* IndexOf(line, p, 1) = 1
IndexOf(line, pattern, from) ==
    LET hits == {i \in from..(Len(line) - Len(pattern) + 1) :
                    SubSeq(line, i, i + Len(pattern) - 1) = pattern}
    IN  IF hits = {} THEN 0 ELSE CHOOSE i \in hits : \A j \in hits : i <= j

\* String.prototype.split on a separator that is not empty
RECURSIVE Split(_, _)
Split(line, separator) ==
    LET at == IndexOf(line, separator, 1)
    IN  IF at = 0 THEN <<line>>
        ELSE <<SubSeq(line, 1, at - 1)>>
                \o Split(SubSeq(line, at + Len(separator), Len(line)), separator)

\* Array.prototype.join
RECURSIVE Join(_, _)
Join(parts, separator) ==
    IF parts = <<>> THEN <<>>
    ELSE IF Len(parts) = 1 THEN parts[1]
         ELSE parts[1] \o separator \o Join(Tail(parts), separator)

\* parseInt of a run of digits
RECURSIVE ParseInt(_)
ParseInt(digits) ==
    IF digits = <<>> THEN 0
    ELSE 10 * ParseInt(SubSeq(digits, 1, Len(digits) - 1))
            + (CHOOSE d \in 0..9 : Digits[d + 1] = digits[Len(digits)])

(***************************************************************************)
(* parseValue, lines 168-187                                               *)
(***************************************************************************)
\* line 176, /^-?\d+(\.\d+)?$/
IsNumberText(value) ==
    LET start == IF value # <<>> /\ value[1] = "-" THEN 2 ELSE 1
        whole == RunEnd(value, start, Class.digit)
    IN  /\ whole >= start
        /\ \/ whole = Len(value)
           \/ /\ whole + 2 <= Len(value)
              /\ value[whole + 1] = "."
              /\ RunEnd(value, whole + 2, Class.digit) = Len(value)

\* line 177, parseFloat of a text that passed line 176
ParseFloat(value) ==
    LET start == IF value[1] = "-" THEN 2 ELSE 1
        sign == IF value[1] = "-" THEN -1 ELSE 1
        whole == RunEnd(value, start, Class.digit)
        decimals == SubSeq(value, whole + 2, Len(value))
        scale == 10 ^ Len(decimals)
    IN  Divide(Num(sign * (ParseInt(SubSeq(value, start, whole)) * scale
                              + ParseInt(decimals))),
               scale)

\* line 181, /^\d{4}-\d{2}-\d{2}/
IsDateText(value) ==
    /\ Len(value) >= 10
    /\ \A i \in {1, 2, 3, 4, 6, 7, 9, 10} : value[i] \in Class.digit
    /\ value[5] = "-"
    /\ value[8] = "-"

\* lines 168-187; line 186 is value.replace(/^["']|["']$/g, '')
parseValue(text) ==
    LET value == Trim(text)
        quotes == {"\"", "'"}
        rest == IF value # <<>> /\ value[1] \in quotes THEN Tail(value) ELSE value
        unquoted == IF rest # <<>> /\ rest[Len(rest)] \in quotes
                    THEN SubSeq(rest, 1, Len(rest) - 1)
                    ELSE rest
    IN  CASE value = <<"t", "r", "u", "e">> -> Bool(TRUE)
          [] value = <<"f", "a", "l", "s", "e">> -> Bool(FALSE)
          [] IsNumberText(value) -> ParseFloat(value)
          [] IsDateText(value) -> Date(Text(value))
          [] OTHER -> Str(Text(unquoted))

(***************************************************************************)
(* parseComputeExpression, lines 189-199                                   *)
(***************************************************************************)
\* line 190, expr.match(/(\w+)\(([^)]*)\)/): the positions of the first match,
\* from the first character of the function name to the closing parenthesis;
\* a name is a whole run of word characters, so the first match begins where
\* the first run that is followed by ( ... ) begins
ComputeMatch(expr) ==
    LET starts == {i \in DOMAIN expr :
                     /\ expr[i] \in Class.word
                     /\ RunEnd(expr, i, Class.word) < Len(expr)
                     /\ expr[RunEnd(expr, i, Class.word) + 1] = "("
                     /\ IndexOf(expr, <<")">>, RunEnd(expr, i, Class.word) + 2) # 0}
    IN  IF starts = {} THEN <<>>
        ELSE LET start == CHOOSE i \in starts : \A j \in starts : i <= j
                 open == RunEnd(expr, start, Class.word) + 1
             IN  <<start, open, IndexOf(expr, <<")">>, open + 1)>>

\* lines 189-199: the expression, or the error thrown at line 192
parseComputeExpression(expr) ==
    LET match == ComputeMatch(expr)
    IN  IF match = <<>>
        THEN [error |-> "Invalid compute expression: " \o Text(expr),
              value |-> Undefined]
        ELSE LET func == SubSeq(expr, match[1], match[2] - 1)
                 field == Trim(SubSeq(expr, match[2] + 1, match[3] - 1))
             IN  [error |-> "none",
                  value |-> Object(<<Entry("function", Str(Text(func))),
                                     Entry("field",
                                           IF field = <<>> THEN Undefined
                                           ELSE Str(Text(field)))>>)]

(***************************************************************************)
(* parseFilterExpression, lines 201-222                                    *)
(***************************************************************************)
\* line 203, the operators in the order they are tried, each with the marker
\* of lines 210-217, "" for =
Operators ==
    <<[text |-> <<">", "=">>, marker |-> "$gte"],
      [text |-> <<"<", "=">>, marker |-> "$lte"],
      [text |-> <<">">>, marker |-> "$gt"],
      [text |-> <<"<">>, marker |-> "$lt"],
      [text |-> <<"!", "=">>, marker |-> "$ne"],
      [text |-> <<"=">>, marker |-> ""]>>

\* lines 201-222
parseFilterExpression(expr) ==
    LET found == {i \in DOMAIN Operators : IndexOf(expr, Operators[i].text, 1) # 0}
    IN  IF found = {} THEN parseValue(expr)
        ELSE LET op == Operators[CHOOSE i \in found : \A j \in found : i <= j]
                 value == Trim(Split(expr, op.text)[2])
                 Marked(parsedValue) ==
                     IF op.marker = "" THEN parsedValue
                     ELSE Object(<<Entry(op.marker, parsedValue)>>)
             IN  Marked(parseValue(value))

(***************************************************************************)
(* processSection, lines 139-166                                           *)
(***************************************************************************)
\* obj[key] = value: a new key goes last, a known key keeps its place
ObjSet(obj, key, value) ==
    IF \E i \in DOMAIN obj.entries : obj.entries[i].key = key
    THEN Object([i \in DOMAIN obj.entries |->
                    IF obj.entries[i].key = key THEN Entry(key, value)
                    ELSE obj.entries[i]])
    ELSE Object(Append(obj.entries, Entry(key, value)))

\* line 150, .trim().replace(/,?\s*$/, '')
StripComma(text) ==
    LET value == Trim(text)
    IN  IF value # <<>> /\ value[Len(value)] = ","
        THEN SubSeq(value, 1, Len(value) - 1)
        ELSE value

\* lines 147-164 for one line of a section: the three clauses after it, and
\* the error when parseComputeExpression throws
SectionLine(section, line, clauses) ==
    IF IndexOf(line, <<":">>, 1) = 0 \/ clauses.error # "none" THEN clauses
    ELSE LET parts == Split(line, <<":">>)
             key == Text(Trim(parts[1]))
             value == StripComma(Join(Tail(parts), <<":">>))
         IN  CASE section = "WHERE" ->
                     [clauses EXCEPT !.where = ObjSet(@, key, parseValue(value))]
               [] section = "COMPUTE" ->
                     LET Computed(expr) ==
                             IF expr.error # "none"
                             THEN [clauses EXCEPT !.error = expr.error]
                             ELSE [clauses EXCEPT
                                      !.compute = ObjSet(@, key, expr.value)]
                     IN  Computed(parseComputeExpression(value))
               [] section = "FILTER" ->
                     [clauses EXCEPT
                         !.filter = ObjSet(@, key, parseFilterExpression(value))]
               [] OTHER -> clauses

\* lines 139-166
RECURSIVE processSection(_, _, _)
processSection(section, content, clauses) ==
    IF content = <<>> THEN clauses
    ELSE processSection(section, Tail(content),
                        SectionLine(section, Head(content), clauses))

(***************************************************************************)
(* parse, lines 30-137                                                     *)
(***************************************************************************)
\* the words that parse looks for; operations are the keywords of the pattern
\* of line 59
Keyword ==
    [query |-> <<"@", "Q", "U", "E", "R", "Y">>,
     intent |-> <<"@", "I", "N", "T", "E", "N", "T">>,
     where |-> <<"W", "H", "E", "R", "E">>,
     compute |-> <<"C", "O", "M", "P", "U", "T", "E">>,
     filter |-> <<"F", "I", "L", "T", "E", "R">>,
     sortBy |-> <<"S", "O", "R", "T", " ", "B", "Y">>,
     desc |-> <<"D", "E", "S", "C">>,
     limit |-> <<"L", "I", "M", "I", "T">>,
     operations |->
        {<<"F", "E", "T", "C", "H">>, <<"I", "N", "S", "E", "R", "T">>,
         <<"U", "P", "D", "A", "T", "E">>, <<"D", "E", "L", "E", "T", "E">>,
         <<"G", "R", "A", "P", "H", "_", "T", "R", "A", "V", "E", "R", "S", "E">>,
         <<"G", "R", "A", "P", "H", "_", "Q", "U", "E", "R", "Y">>}]

\* lines 33-45, the variables of parse before the first line
ParseStart ==
    [name |-> Str(""), intent |-> Str(""), operation |-> "FETCH", target |-> "",
     where |-> Object(<<>>), compute |-> Object(<<>>), filter |-> Object(<<>>),
     sort |-> Undefined, limit |-> Undefined,
     currentSection |-> "", braceDepth |-> 0, sectionContent |-> <<>>,
     error |-> "none"]

\* line 50, line.split(' ')[1]
NameOf(line) ==
    LET parts == Split(line, <<" ">>)
    IN  IF Len(parts) >= 2 THEN Str(Text(parts[2])) ELSE Undefined

\* line 54, line.match(/"([^"]*)"/)?.[1] || ''
IntentOf(line) ==
    LET open == IndexOf(line, <<"\"">>, 1)
        close == IF open = 0 THEN 0 ELSE IndexOf(line, <<"\"">>, open + 1)
    IN  IF close = 0 THEN Str("")
        ELSE Str(Text(SubSeq(line, open + 1, close - 1)))

\* line 59: the line opens with a keyword, white space and a word character
IsOperationLine(line) ==
    \E keyword \in Keyword.operations :
       /\ IndexOf(line, keyword, 1) = 1
       /\ RunEnd(line, Len(keyword) + 1, Class.space) > Len(keyword)
       /\ RunEnd(line, Len(keyword) + 1, Class.space) < Len(line)
       /\ line[RunEnd(line, Len(keyword) + 1, Class.space) + 1] \in Class.word

\* lines 60-66, line.match(/^(\w+)\s+(\w+)/) on an operation line
OperationMatch(line) ==
    LET op == Text(SubSeq(line, 1, RunEnd(line, 1, Class.word)))
        start == RunEnd(line, RunEnd(line, 1, Class.word) + 1, Class.space) + 1
    IN  [operation |-> IF op = "GRAPH_QUERY" THEN "GRAPH_TRAVERSE" ELSE op,
         target |-> Text(SubSeq(line, start, RunEnd(line, start, Class.word)))]

\* lines 103-109, line.match(/SORT BY\s+(\w+)\s+(ASC|DESC)?/) on a line that
\* starts with SORT BY: the sort clause, or the old one when nothing matches
SortOf(line, sortClause) ==
    LET start == RunEnd(line, Len(Keyword.sortBy) + 1, Class.space) + 1
        end == RunEnd(line, start, Class.word)
        after == RunEnd(line, end + 1, Class.space)
        rest == SubSeq(line, after + 1, Len(line))
    IN  IF start > Len(Keyword.sortBy) + 1 /\ end >= start /\ after > end
        THEN Object(<<Entry("field", Str(Text(SubSeq(line, start, end)))),
                      Entry("order",
                            IF IndexOf(rest, Keyword.desc, 1) = 1 THEN Str("DESC")
                            ELSE Str("ASC"))>>)
        ELSE sortClause

\* lines 113-116, line.match(/LIMIT\s+(\d+)/) on a line that starts with LIMIT
LimitOf(line, limitValue) ==
    LET start == RunEnd(line, Len(Keyword.limit) + 1, Class.space) + 1
        end == RunEnd(line, start, Class.digit)
    IN  IF start > Len(Keyword.limit) + 1 /\ end >= start
        THEN Num(ParseInt(SubSeq(line, start, end)))
        ELSE limitValue

\* lines 47-124, the body of the loop for one line
ParseLine(st, line) ==
    LET StartsWith(word) == IndexOf(line, word, 1) = 1
        Includes(char) == IndexOf(line, <<char>>, 1) # 0
    IN
    IF st.error # "none" THEN st
    ELSE IF StartsWith(Keyword.query) THEN [st EXCEPT !.name = NameOf(line)]
    ELSE IF StartsWith(Keyword.intent) THEN [st EXCEPT !.intent = IntentOf(line)]
    ELSE IF IsOperationLine(line)
         THEN [st EXCEPT !.operation = OperationMatch(line).operation,
                         !.target = OperationMatch(line).target]
    ELSE LET depth == IF Includes("{") THEN st.braceDepth + 1
                      ELSE st.braceDepth
         IN  IF Includes("}")
             THEN IF depth - 1 = 0 /\ st.currentSection # ""
                  THEN LET Processed(clauses) ==
                              [st EXCEPT !.braceDepth = depth - 1,
                                         !.where = clauses.where,
                                         !.compute = clauses.compute,
                                         !.filter = clauses.filter,
                                         !.error = clauses.error,
                                         !.currentSection = "",
                                         !.sectionContent = <<>>]
                       IN  Processed(processSection(
                               st.currentSection, st.sectionContent,
                               [where |-> st.where, compute |-> st.compute,
                                filter |-> st.filter, error |-> "none"]))
                  ELSE [st EXCEPT !.braceDepth = depth - 1]
             ELSE IF StartsWith(Keyword.where)
                  THEN [st EXCEPT !.braceDepth = depth, !.currentSection = "WHERE"]
             ELSE IF StartsWith(Keyword.compute)
                  THEN [st EXCEPT !.braceDepth = depth,
                                  !.currentSection = "COMPUTE"]
             ELSE IF StartsWith(Keyword.filter)
                  THEN [st EXCEPT !.braceDepth = depth,
                                  !.currentSection = "FILTER"]
             ELSE IF StartsWith(Keyword.sortBy)
                  THEN [st EXCEPT !.braceDepth = depth,
                                  !.sort = SortOf(line, st.sort)]
             ELSE IF StartsWith(Keyword.limit)
                  THEN [st EXCEPT !.braceDepth = depth,
                                  !.limit = LimitOf(line, st.limit)]
             ELSE IF st.currentSection # "" /\ depth > 0
                  THEN [st EXCEPT !.braceDepth = depth,
                                  !.sectionContent = Append(@, line)]
             ELSE [st EXCEPT !.braceDepth = depth]

RECURSIVE ParseLines(_, _)
ParseLines(st, lines) ==
    IF lines = <<>> THEN st ELSE ParseLines(ParseLine(st, Head(lines)), Tail(lines))

\* a slip in lines 131-133: a clause without keys is returned as it is
parseKeepingEmpty(text) ==
    LET NotEmpty(line) == line # <<>>
        lines == SelectSeq([i \in DOMAIN text |-> Trim(text[i])], NotEmpty)
        Result(st) ==
            [error |-> st.error,
             query |-> [name |-> st.name, intent |-> st.intent,
                        operation |-> st.operation, target |-> st.target,
                        where |-> st.where, compute |-> st.compute,
                        filter |-> st.filter,
                        sort |-> st.sort, limit |-> st.limit]]
    IN  Result(ParseLines(ParseStart, lines))

\* lines 30-137: the query returned, or the error thrown; line 31 is
\* split('\n').map(line => line.trim()).filter(Boolean), and a clause without
\* keys is left out at lines 131-133
parse(text) ==
    LET NotEmpty(line) == line # <<>>
        lines == SelectSeq([i \in DOMAIN text |-> Trim(text[i])], NotEmpty)
        ClauseOf(clause) == IF clause.entries = <<>> THEN Undefined ELSE clause
        Result(st) ==
            [error |-> st.error,
             query |-> [name |-> st.name, intent |-> st.intent,
                        operation |-> st.operation, target |-> st.target,
                        where |-> ClauseOf(st.where),
                        compute |-> ClauseOf(st.compute),
                        filter |-> ClauseOf(st.filter),
                        sort |-> st.sort, limit |-> st.limit]]
    IN  Result(ParseLines(ParseStart, lines))

(***************************************************************************)
(* The query pipeline: a store of order, user or product nodes, then one   *)
(* executeQuery call, of a Query value or of the result of parse.          *)
(***************************************************************************)
\* the most rows a query of the pipeline is run on
MaxRows == 3

PipelineNode(id, type, properties) ==
    [id |-> Num(id), type |-> type, properties |-> properties, edges |-> <<>>]

\* the values of a user's flag, one of each kind of literal of parseValue
Flags == {Bool(TRUE), Num(1), Date("2024-01-01"), Str("2024-01-01")}

\* spec scenario 4: products priced 50, 150 and 300
ProductStore ==
    <<PipelineNode(1, "product", "price" :> Num(50)),
      PipelineNode(2, "product", "price" :> Num(150)),
      PipelineNode(3, "product", "price" :> Num(300))>>

\* the stores, as the nodes in insertion order: order nodes 1..n, each with a
\* total or without one; user nodes 1 and 2, each with a status and a flag
\* (only user 1 can hold a Date, so that no two Date objects of one text meet
\* as keys of the property index); the products of scenario 4; user 9 with
\* orders 1..n, each a HAS_ORDER edge of the user (in insertion order) or
\* chained, the user to order 1 and order i to order i + 1
PipelineStores ==
    LET totals == {Undefined, Num(0), Num(-5), Num(100), Num(200), Num(300)}
        statuses == {Str("active"), Str("inactive")}
        Order(i, total) ==
            PipelineNode(i, "order",
                         IF total = Undefined THEN EmptyMap ELSE "total" :> total)
        User(i, status, flag) ==
            PipelineNode(i, "user", ("status" :> status) @@ ("flag" :> flag))
        linked == {Undefined, Num(100), Num(200)}
        Has(i) == [relationship |-> "HAS_ORDER", target |-> Num(i)]
    IN  UNION {{[i \in 1..n |-> Order(i, total[i])] : total \in [1..n -> totals]} :
                  n \in 0..MaxRows}
           \cup {[i \in 1..2 |-> User(i, status[i], flag[i])] :
                    status \in [1..2 -> statuses],
                    flag \in {f \in [1..2 -> Flags] : f[2].kind # "date"}}
           \cup {ProductStore}
           \cup UNION {{[i \in 1..n + 1 |->
                            IF i <= n
                            THEN [Order(i, total[i]) EXCEPT
                                     !.edges = IF chained /\ i < n
                                               THEN <<Has(i + 1)>> ELSE <<>>]
                            ELSE [PipelineNode(9, "user", "status" :> Str("active"))
                                     EXCEPT
                                     !.edges = IF chained THEN <<Has(1)>>
                                               ELSE [j \in 1..n |-> Has(j)]]] :
                            total \in [1..n -> linked], chained \in BOOLEAN} :
                           n \in 1..MaxRows}

\* a compute expression, a sort expression, and an object with one entry (a
\* clause on one field, or a condition with one marker)
Expr(func, field) ==
    Object(<<Entry("function", Str(func)), Entry("field", field)>>)
SortOn(field, order) ==
    Object(<<Entry("field", Str(field)), Entry("order", Str(order))>>)
Only(key, value) == Object(<<Entry(key, value)>>)

\* a COMPUTE clause with every function, COUNT with and without a field
ComputeAll ==
    Object(<<Entry("count", Expr("COUNT", Undefined)),
             Entry("n", Expr("COUNT", Str("missing"))),
             Entry("sum", Expr("SUM", Str("total"))),
             Entry("avg", Expr("AVG", Str("total"))),
             Entry("min", Expr("MIN", Str("total"))),
             Entry("max", Expr("MAX", Str("total")))>>)

\* a FETCH with every clause given
Fetching(target, where, compute, filter, sort, limit) ==
    [Query("FETCH", target, where, compute, filter) EXCEPT
        !.sort = sort, !.limit = limit]

\* the Query values executed: FETCH order with or without each of filter,
\* sort, limit and compute; FETCH with one FILTER condition (each marker, two
\* markers, a bare value, two fields); FETCH user with a WHERE clause on one
\* field or on both; the COMPUTE and FILTER of the doc comment, lines 15-21
PipelineQueries ==
    LET None == Undefined
        markers == {"$gt", "$gte", "$lt", "$lte", "$ne"}
        active == Entry("status", Str("active"))
    IN  {Fetching("order", None, compute, filter, sort, limit) :
            compute \in {None, ComputeAll, Only("total", Expr("SUM", Str("total")))},
            filter \in {None, Only("total", Only("$gte", Num(0)))},
            sort \in {None, SortOn("total", "ASC"), SortOn("total", "DESC")},
            limit \in {None, Num(0), Num(1), Num(2)}}
           \cup {Fetching("order", None, None, Only("total", Only(op, value)),
                          None, None) :
                    op \in markers, value \in {Num(0), Num(100)}}
           \cup {Fetching("order", None, None, Only("total", condition), None, None) :
                    condition \in {Num(100), Num(0),
                                   Object(<<Entry("$gt", Num(0)),
                                            Entry("$lte", Num(200))>>)}}
           \cup {Fetching("user", None, None, Only("flag", condition), None, None) :
                    condition \in Flags \cup {Only("$ne", flag) : flag \in Flags}
                                        \cup {Only("$gte", Date("2024-01-01")),
                                              Only("$lt", Date("2024-06-30"))}}
           \cup {Fetching("user", None, None,
                          Object(<<active, Entry("flag", Only("$ne", Num(1)))>>),
                          None, None)}
           \cup {Fetching("user", where, None, None, None, None) :
                    where \in {Only("status", Str("active")),
                               Only("status", Str("inactive"))}
                                 \cup {Only("flag", flag) : flag \in Flags}
                                 \cup {Object(<<active, Entry("flag", flag)>>) :
                                          flag \in Flags}}
           \cup {Fetching("order", None,
                          Only("order_count", Expr("COUNT", Str("orders"))),
                          Only("order_count", Only("$gt", Num(1))), None, None)}

\* GRAPH_TRAVERSE from user 9 with and without a path, with or without each of
\* filter, sort, limit and compute
TraverseQueries ==
    LET None == Undefined
        start == Entry("start", Num(9))
    IN  {[Query("GRAPH_TRAVERSE", "user", where, compute, filter) EXCEPT
             !.sort = sort, !.limit = limit] :
            where \in {Object(<<start>>),
                       Object(<<start, Entry("path", Array(<<"HAS_ORDER">>))>>)},
            compute \in {None, Only("total", Expr("SUM", Str("total")))},
            filter \in {None, Only("total", Only("$gte", Num(200)))},
            sort \in {None, SortOn("total", "DESC")},
            limit \in {None, Num(0), Num(1)}}

\* the query texts parsed, each a sequence of lines: scenario4 is spec scenario 4
\* on one line as the spec writes it and scenario4Lines the same query in the
\* layout of the doc comment, lines 10-24; priceColon has the entry written as
\* key: value, the shape line 147 asks for; sum is spec scenario 2; limitZero,
\* limitOne and limitTwo cut a descending sort; the where texts are spec
\* scenario 1 and one WHERE entry per kind of literal; the filter texts have a
\* bare value or a marker on a date; badCompute has a COMPUTE entry that is no
\* FUNC(field); unknownOperation opens with a keyword line 59 does not know and
\* insertUser with one it knows; emptySections has sections without entries;
\* the sort texts have a SORT BY line without and with a direction; twoSections
\* and braceOwnLine are one query with the opening brace of the block on the
\* operation line and on a line of its own
Texts ==
    [scenario4 |->
        <<<<"F", "E", "T", "C", "H", " ", "p", "r", "o", "d", "u", "c", "t", " ", "{", " ", "F", "I", "L", "T", "E", "R", " ", "{", " ", "p", "r", "i", "c", "e", " ", ">", " ", "1", "0", "0", " ", "}", " ", "}">>>>,
     scenario4Lines |->
        <<<<"F", "E", "T", "C", "H", " ", "p", "r", "o", "d", "u", "c", "t", " ", "{">>,
          <<" ", " ", "F", "I", "L", "T", "E", "R", " ", "{">>,
          <<" ", " ", " ", " ", "p", "r", "i", "c", "e", " ", ">", " ", "1", "0", "0">>,
          <<" ", " ", "}">>,
          <<"}">>>>,
     priceColon |->
        <<<<"F", "E", "T", "C", "H", " ", "p", "r", "o", "d", "u", "c", "t", " ", "{">>,
          <<" ", " ", "F", "I", "L", "T", "E", "R", " ", "{">>,
          <<" ", " ", " ", " ", "p", "r", "i", "c", "e", ":", " ", ">", " ", "1", "0", "0">>,
          <<" ", " ", "}">>,
          <<"}">>>>,
     sum |->
        <<<<"F", "E", "T", "C", "H", " ", "o", "r", "d", "e", "r", " ", "{">>,
          <<" ", " ", "C", "O", "M", "P", "U", "T", "E", " ", "{">>,
          <<" ", " ", " ", " ", "t", "o", "t", "a", "l", ":", " ", "S", "U", "M", "(", "t", "o", "t", "a", "l", ")">>,
          <<" ", " ", "}">>,
          <<"}">>>>,
     limitZero |->
        <<<<"F", "E", "T", "C", "H", " ", "o", "r", "d", "e", "r", " ", "{">>,
          <<" ", " ", "S", "O", "R", "T", " ", "B", "Y", " ", "t", "o", "t", "a", "l", " ", "D", "E", "S", "C">>,
          <<" ", " ", "L", "I", "M", "I", "T", " ", "0">>,
          <<"}">>>>,
     limitOne |->
        <<<<"F", "E", "T", "C", "H", " ", "o", "r", "d", "e", "r", " ", "{">>,
          <<" ", " ", "S", "O", "R", "T", " ", "B", "Y", " ", "t", "o", "t", "a", "l", " ", "D", "E", "S", "C">>,
          <<" ", " ", "L", "I", "M", "I", "T", " ", "1">>,
          <<"}">>>>,
     limitTwo |->
        <<<<"F", "E", "T", "C", "H", " ", "o", "r", "d", "e", "r", " ", "{">>,
          <<" ", " ", "S", "O", "R", "T", " ", "B", "Y", " ", "t", "o", "t", "a", "l", " ", "D", "E", "S", "C">>,
          <<" ", " ", "L", "I", "M", "I", "T", " ", "2">>,
          <<"}">>>>,
     whereStatus |->
        <<<<"F", "E", "T", "C", "H", " ", "u", "s", "e", "r", " ", "{">>,
          <<" ", " ", "W", "H", "E", "R", "E", " ", "{">>,
          <<" ", " ", " ", " ", "s", "t", "a", "t", "u", "s", ":", " ", "a", "c", "t", "i", "v", "e">>,
          <<" ", " ", "}">>,
          <<"}">>>>,
     whereBoolean |->
        <<<<"F", "E", "T", "C", "H", " ", "u", "s", "e", "r", " ", "{">>,
          <<" ", " ", "W", "H", "E", "R", "E", " ", "{">>,
          <<" ", " ", " ", " ", "f", "l", "a", "g", ":", " ", "t", "r", "u", "e">>,
          <<" ", " ", "}">>,
          <<"}">>>>,
     whereNumber |->
        <<<<"F", "E", "T", "C", "H", " ", "u", "s", "e", "r", " ", "{">>,
          <<" ", " ", "W", "H", "E", "R", "E", " ", "{">>,
          <<" ", " ", " ", " ", "f", "l", "a", "g", ":", " ", "1">>,
          <<" ", " ", "}">>,
          <<"}">>>>,
     whereDate |->
        <<<<"F", "E", "T", "C", "H", " ", "u", "s", "e", "r", " ", "{">>,
          <<" ", " ", "W", "H", "E", "R", "E", " ", "{">>,
          <<" ", " ", " ", " ", "f", "l", "a", "g", ":", " ", "2", "0", "2", "4", "-", "0", "1", "-", "0", "1">>,
          <<" ", " ", "}">>,
          <<"}">>>>,
     whereBoth |->
        <<<<"F", "E", "T", "C", "H", " ", "u", "s", "e", "r", " ", "{">>,
          <<" ", " ", "W", "H", "E", "R", "E", " ", "{">>,
          <<" ", " ", " ", " ", "s", "t", "a", "t", "u", "s", ":", " ", "\"", "a", "c", "t", "i", "v", "e", "\"", ",">>,
          <<" ", " ", " ", " ", "f", "l", "a", "g", ":", " ", "1">>,
          <<" ", " ", "}">>,
          <<"}">>>>,
     filterDate |->
        <<<<"F", "E", "T", "C", "H", " ", "u", "s", "e", "r", " ", "{">>,
          <<" ", " ", "F", "I", "L", "T", "E", "R", " ", "{">>,
          <<" ", " ", " ", " ", "f", "l", "a", "g", ":", " ", "=", " ", "2", "0", "2", "4", "-", "0", "1", "-", "0", "1">>,
          <<" ", " ", "}">>,
          <<"}">>>>,
     filterString |->
        <<<<"F", "E", "T", "C", "H", " ", "u", "s", "e", "r", " ", "{">>,
          <<" ", " ", "F", "I", "L", "T", "E", "R", " ", "{">>,
          <<" ", " ", " ", " ", "s", "t", "a", "t", "u", "s", ":", " ", "i", "n", "a", "c", "t", "i", "v", "e">>,
          <<" ", " ", "}">>,
          <<"}">>>>,
     filterNotDate |->
        <<<<"F", "E", "T", "C", "H", " ", "u", "s", "e", "r", " ", "{">>,
          <<" ", " ", "F", "I", "L", "T", "E", "R", " ", "{">>,
          <<" ", " ", " ", " ", "f", "l", "a", "g", ":", " ", "!", "=", " ", "2", "0", "2", "4", "-", "0", "1", "-", "0", "1">>,
          <<" ", " ", "}">>,
          <<"}">>>>,
     badCompute |->
        <<<<"F", "E", "T", "C", "H", " ", "o", "r", "d", "e", "r", " ", "{">>,
          <<" ", " ", "C", "O", "M", "P", "U", "T", "E", " ", "{">>,
          <<" ", " ", " ", " ", "t", "o", "t", "a", "l", ":", " ", "t", "o", "t", "a", "l">>,
          <<" ", " ", "}">>,
          <<"}">>>>,
     unknownOperation |->
        <<<<"M", "E", "R", "G", "E", " ", "u", "s", "e", "r", " ", "{">>,
          <<" ", " ", "W", "H", "E", "R", "E", " ", "{">>,
          <<" ", " ", " ", " ", "s", "t", "a", "t", "u", "s", ":", " ", "a", "c", "t", "i", "v", "e">>,
          <<" ", " ", "}">>,
          <<"}">>>>,
     insertUser |->
        <<<<"I", "N", "S", "E", "R", "T", " ", "u", "s", "e", "r", " ", "{">>,
          <<"}">>>>,
     emptySections |->
        <<<<"F", "E", "T", "C", "H", " ", "u", "s", "e", "r", " ", "{">>,
          <<" ", " ", "W", "H", "E", "R", "E", " ", "{">>,
          <<" ", " ", "}">>,
          <<" ", " ", "C", "O", "M", "P", "U", "T", "E", " ", "{">>,
          <<" ", " ", "}">>,
          <<" ", " ", "F", "I", "L", "T", "E", "R", " ", "{">>,
          <<" ", " ", "}">>,
          <<"}">>>>,
     sortNoDirection |->
        <<<<"F", "E", "T", "C", "H", " ", "o", "r", "d", "e", "r", " ", "{">>,
          <<" ", " ", "S", "O", "R", "T", " ", "B", "Y", " ", "t", "o", "t", "a", "l">>,
          <<"}">>>>,
     sortAsc |->
        <<<<"F", "E", "T", "C", "H", " ", "o", "r", "d", "e", "r", " ", "{">>,
          <<" ", " ", "S", "O", "R", "T", " ", "B", "Y", " ", "t", "o", "t", "a", "l", " ", "A", "S", "C">>,
          <<"}">>>>,
     twoSections |->
        <<<<"F", "E", "T", "C", "H", " ", "u", "s", "e", "r", " ", "{">>,
          <<" ", " ", "W", "H", "E", "R", "E", " ", "{">>,
          <<" ", " ", " ", " ", "s", "t", "a", "t", "u", "s", ":", " ", "a", "c", "t", "i", "v", "e">>,
          <<" ", " ", "}">>,
          <<" ", " ", "F", "I", "L", "T", "E", "R", " ", "{">>,
          <<" ", " ", " ", " ", "f", "l", "a", "g", ":", " ", "!", "=", " ", "1">>,
          <<" ", " ", "}">>,
          <<"}">>>>,
     braceOwnLine |->
        <<<<"F", "E", "T", "C", "H", " ", "u", "s", "e", "r">>,
          <<"{">>,
          <<" ", " ", "W", "H", "E", "R", "E", " ", "{">>,
          <<" ", " ", " ", " ", "s", "t", "a", "t", "u", "s", ":", " ", "a", "c", "t", "i", "v", "e">>,
          <<" ", " ", "}">>,
          <<" ", " ", "F", "I", "L", "T", "E", "R", " ", "{">>,
          <<" ", " ", " ", " ", "f", "l", "a", "g", ":", " ", "!", "=", " ", "1">>,
          <<" ", " ", "}">>,
          <<"}">>>>]

\* a call of parse(text), lines 30-137
Parse(text) ==
    /\ ret = NoCall
    /\ ret' = [op |-> "parse", text |-> text] @@ parse(text)
    /\ UNCHANGED <<nodes, typeIndex, edgeIndex, propertyIndex, cache, now,
                   reinserted>>

\* the Query that parse returned is handed to executeQuery
ExecuteParsed ==
    /\ ret.op = "parse"
    /\ ret.error = "none"
    /\ ExecuteQuery(ret.query)

InitPipeline ==
    /\ \E inserted \in PipelineStores :
          LET db == DbAfter(inserted)
          IN  /\ nodes = db.nodes
              /\ typeIndex = db.typeIndex
              /\ edgeIndex = db.edgeIndex
              /\ propertyIndex = db.propertyIndex
    /\ cache = EmptyMap
    /\ now = 0
    /\ ret = NoCall
    /\ reinserted = FALSE

NextPipeline ==
    \/ \E query \in PipelineQueries : ret = NoCall /\ ExecuteQuery(query)
    \/ \E query \in TraverseQueries : ret = NoCall /\ ExecuteQuery(query)
    \/ \E text \in Range(Texts) : Parse(text)
    \/ ExecuteParsed

SpecPipeline == InitPipeline /\ [][NextPipeline]_vars

(***************************************************************************)
(* A caller's session: addNode, clear and executeQuery calls; then the     *)
(* same with the caller's own writes to the array a call handed out.       *)
(***************************************************************************)
\* the queries of the session: FETCH user bare, with a WHERE entry, and with
\* a COMPUTE entry; FETCH of a type no node has
SessionQueries ==
    {FetchUsers,
     Fetching("user", Only("status", Str("active")), Undefined, Undefined,
              Undefined, Undefined),
     Fetching("user", Undefined, Only("count", Expr("COUNT", Str("id"))),
              Undefined, Undefined, Undefined),
     Fetching("order", Undefined, Undefined, Undefined, Undefined, Undefined)}

\* the caller writes to the array that the last executeQuery returned
\* (pop, length = 0 or reverse). Line 210 returns the array that line 208 has
\* put into the cache, and line 171 returns the array of the cache entry, so
\* as long as the entry is in the cache the write is a write to its data
CallerMutates ==
    /\ ret.op = "executeQuery"
    /\ ret.error = "none"
    /\ \E rows \in {SubSeq(ret.rows, 1, Len(ret.rows) - 1), <<>>,
                    [i \in DOMAIN ret.rows |-> ret.rows[Len(ret.rows) + 1 - i]]} :
          /\ ret' = [ret EXCEPT !.rows = rows]
          /\ cache' = IF CacheKey(ret.query) \in DOMAIN cache
                      THEN [cache EXCEPT ![CacheKey(ret.query)].data = rows]
                      ELSE cache
    /\ UNCHANGED <<nodes, typeIndex, edgeIndex, propertyIndex, now, reinserted>>

NextSession ==
    \/ \E node \in QueryNodes \cup {[User0 EXCEPT !.properties.status =
                                        Str("inactive")]} : AddNode(node)
    \/ Clear
    \/ \E query \in SessionQueries : ExecuteQuery(query)

SpecSession == Init /\ [][NextSession]_vars

NextHandedOut ==
    \/ NextSession
    \/ CallerMutates

SpecHandedOut == Init /\ [][NextHandedOut]_vars

(***************************************************************************)
(* vectorSearch, lines 135-163. An embedding is an array of integers whose *)
(* sum of squares is a square, so that Math.sqrt is exact, and a           *)
(* similarity or a threshold is the fraction num / den with den > 0.       *)
(***************************************************************************)
\* lines 316-335
cosineSimilarity(a, b) ==
    LET RECURSIVE Dot(_, _)
        Dot(x, y) == IF x = <<>> THEN 0
                     ELSE Head(x) * Head(y) + Dot(Tail(x), Tail(y))
        Sqrt(n) == CHOOSE r \in 0..n : r * r = n
        Quotient(dotProduct, magnitudeA, magnitudeB) ==
            IF magnitudeA = 0 \/ magnitudeB = 0 THEN [num |-> 0, den |-> 1]
            ELSE [num |-> dotProduct, den |-> magnitudeA * magnitudeB]
    IN  IF Len(a) # Len(b) THEN [num |-> 0, den |-> 1]
        ELSE Quotient(Dot(a, b), Sqrt(Dot(a, a)), Sqrt(Dot(b, b)))

\* lines 135-163, values being Array.from(this.nodes.values()) of line 141:
\* the candidates (lines 141-149), those with an embedding and their
\* similarity (lines 152-157), those at the threshold or above (line 159),
\* sorted by falling similarity, the sort being stable (line 160), and cut
\* to the limit (line 161)
vectorSearch(queryEmbedding, type, limit, threshold, values) ==
    LET candidates == IF Truthy(type) THEN NodesOf(IndexSet(typeIndex, type.s))
                      ELSE values
        HasEmbedding(node) == node.embedding # Undefined
        embedded == SelectSeq(candidates, HasEmbedding)
        AtThreshold(item) ==
            item.similarity.num * threshold.den
               >= threshold.num * item.similarity.den
        Sorted(items) ==
            LET Above(i, j) ==
                   items[i].similarity.num * items[j].similarity.den
                      > items[j].similarity.num * items[i].similarity.den
                Rank(i) ==
                   1 + Cardinality({j \in DOMAIN items :
                                       Above(j, i) \/ (~Above(i, j) /\ j < i)})
            IN  [k \in DOMAIN items |->
                    items[CHOOSE i \in DOMAIN items : Rank(i) = k]]
        Cut(items) ==
            SubSeq(items, 1,
                   IF limit < 0 THEN Len(items) + limit
                   ELSE IF limit < Len(items) THEN limit ELSE Len(items))
        Nodes(items) == [i \in DOMAIN items |-> items[i].node]
    IN  IF Truthy(type) /\ type.s \notin DOMAIN typeIndex THEN <<>>
        ELSE Nodes(Cut(Sorted(SelectSeq(
                 [i \in DOMAIN embedded |->
                     [node |-> embedded[i],
                      similarity |->
                         cosineSimilarity(queryEmbedding.items,
                                          embedded[i].embedding.items)]],
                 AtThreshold))))

\* a call of vectorSearch, its result kept in ret. The model's node map keeps
\* no insertion order, so the order of this.nodes.values() is any order of the
\* stored nodes. vectorSearch changes nothing of the store, so a call is the
\* same whatever calls came before: one call per behaviour covers them all
VectorSearch(queryEmbedding, type, limit, threshold) ==
    /\ ret = NoCall
    /\ \E order \in {o \in [1..Cardinality(DOMAIN nodes) -> DOMAIN nodes] :
                        \A i, j \in DOMAIN o : o[i] = o[j] => i = j} :
          ret' = [op |-> "vectorSearch", queryEmbedding |-> queryEmbedding,
                  type |-> type, limit |-> limit, threshold |-> threshold,
                  rows |-> vectorSearch(queryEmbedding, type, limit, threshold,
                                        [i \in DOMAIN order |-> nodes[order[i]]])]
    /\ UNCHANGED <<nodes, typeIndex, edgeIndex, propertyIndex, cache, now,
                   reinserted>>

\* nodes 1 and 2 of type doc or user, without an embedding or with one of
\* length 1 or 2, are added in any order, also again with another type or
\* embedding; the searches are for [3, 4] or the zero vector, with a type or
\* without, a limit of 1 or the default 10, and a threshold of 0 or the
\* default 0.7
NextVector ==
    \/ \E id \in 1..2, type \in {"doc", "user"},
          embedding \in {Undefined, Array(<<3, 4>>), Array(<<4, 3>>),
                         Array(<<5, 0>>), Array(<<0, 0>>), Array(<<1>>)} :
          /\ type = "user" => id = 1 /\ embedding \in {Undefined, Array(<<4, 3>>)}
          /\ ret = NoCall
          /\ AddNode([id |-> Num(id), type |-> type, properties |-> EmptyMap,
                      edges |-> <<>>, embedding |-> embedding])
    \/ \E queryEmbedding \in {Array(<<3, 4>>), Array(<<0, 0>>)},
          type \in {Undefined, Str("doc"), Str("user"), Str("order")},
          limit \in {1, 10},
          threshold \in {[num |-> 0, den |-> 1], [num |-> 7, den |-> 10]} :
          VectorSearch(queryEmbedding, type, limit, threshold)

SpecVector == Init /\ [][NextVector]_vars

(***************************************************************************)
(* Every operation of the engine: addNode calls, the clock, and calls of   *)
(* executeQuery and of the read operations, their results kept in ret.     *)
(***************************************************************************)
\* the queries executed: FETCH user bare; FETCH user with a WHERE entry whose
\* value is a string, and the same with the Date whose JSON is that string;
\* FETCH user with a limit of 1
ReadQueries ==
    {FetchUsers,
     Fetching("user", Only("since", Str("2024-01-01T00:00:00.000Z")), Undefined,
              Undefined, Undefined, Undefined),
     Fetching("user", Only("since", Date("2024-01-01")), Undefined, Undefined,
              Undefined, Undefined),
     Fetching("user", Undefined, Undefined, Undefined, Undefined, Num(1))}

\* users 1 and 2 are added, user 1 with an edge to user 2; the clock moves
\* once past the TTL; a query is executed; or one of the read operations is
\* called: lines 60-62, 67-74, 79-89, 94-130, 135-163 and 364-378. Every
\* node is a user, so the ids of the type index are the keys of the node map
\* in its order (line 141)
\* a slip: a read sweeps the outlived entries out of the cache
ReadSweeping(op, args, value) ==
    /\ ret' = [op |-> op, args |-> args, value |-> value]
    /\ cache' = [key \in {k \in DOMAIN cache : ~Expired(cache[k], now)} |-> cache[key]]
    /\ UNCHANGED <<nodes, typeIndex, edgeIndex, propertyIndex, now, reinserted>>

\* a call of one of getNode (lines 60-62), getNodesByType (67-74),
\* findNodesByProperty (79-89), traverse (94-130), vectorSearch (135-163) and
\* getStats (364-378): none of them assigns to a field or calls a method that
\* does
Read(op, args, value) ==
    /\ ret' = [op |-> op, args |-> args, value |-> value]
    /\ UNCHANGED <<nodes, typeIndex, edgeIndex, propertyIndex, cache, now,
                   reinserted>>

NextReads ==
    LET User(id, edges, embedding) ==
            [id |-> Num(id), type |-> "user",
             properties |-> [since |-> Str("2024-01-01T00:00:00.000Z")],
             edges |-> edges, embedding |-> embedding]
    IN  \/ \E node \in {User(1, <<[relationship |-> "KNOWS", target |-> Num(2)]>>,
                             Array(<<3, 4>>)),
                        User(2, <<>>, Undefined)} : AddNode(node)
        \/ now = 0 /\ Tick(TTL + 1)
        \/ \E query \in ReadQueries : ExecuteQuery(query)
        \/ \E id \in {Num(1), Str("2"), Num(3)} :
              Read("getNode", <<id>>, <<getNode(id)>>)
        \/ \E type \in {"user", "order"} :
              Read("getNodesByType", <<Str(type)>>, getNodesByType(type))
        \/ \E value \in {Str("2024-01-01T00:00:00.000Z"), Str("2024-01-01")} :
              Read("findNodesByProperty", <<Str("since"), value>>,
                   findNodesByProperty("since", value))
        \/ \E start \in {Num(1), Num(2)} :
              Read("traverse", <<start, Array(<<"KNOWS">>), Num(2)>>,
                   traverse(start, <<"KNOWS">>, 2))
        \/ \E type \in {Undefined, Str("user")} :
              Read("vectorSearch", <<Array(<<3, 4>>), type>>,
                   vectorSearch(Array(<<3, 4>>), type, 10,
                                [num |-> 7, den |-> 10],
                                NodesOf(IndexSet(typeIndex, "user"))))
        \/ Read("getStats", <<>>, <<getStats>>)

SpecReads == Init /\ [][NextReads]_vars


(***************************************************************************)
(* Claims about the store, checked under Spec                              *)
(***************************************************************************)
\* the targets the stored node has under a relationship, as index entries
EdgeTargets(node, relationship) ==
    {String(node.edges[i].target) :
        i \in {j \in DOMAIN node.edges : node.edges[j].relationship = relationship}}

\* C1: after any sequence of addNode calls, no index holds an entry for a
\* stored id under a type, a (property, value) pair or an id:relationship
\* target that the stored node does not have, and findNodesByProperty(k, v)
\* returns only nodes whose properties[k] is v.
NoStaleIndexEntries ==
    /\ \A type \in DOMAIN typeIndex : \A id \in Range(typeIndex[type]) :
          id \in DOMAIN nodes => nodes[id].type = type
    /\ \A key \in DOMAIN propertyIndex : \A value \in DOMAIN propertyIndex[key] :
          \A id \in Range(propertyIndex[key][value]) :
             id \in DOMAIN nodes =>
                /\ key \in DOMAIN nodes[id].properties
                /\ nodes[id].properties[key] = value
    /\ \A id \in DOMAIN nodes : \A relationship \in Relationships :
          Range(IndexSet(edgeIndex, EdgeKey(id, relationship)))
             \subseteq EdgeTargets(nodes[id], relationship)
    /\ \A key \in PropKeys : \A value \in PropValues :
          \A node \in Range(findNodesByProperty(key, value)) :
             /\ key \in DOMAIN node.properties
             /\ node.properties[key] = value

\* the number of places of a sequence that hold x
Occurrences(s, x) == Cardinality({i \in DOMAIN s : s[i] = x})

\* C2: every element of getNodesByType(T) has type T, and when no id was
\* inserted twice every stored node of type T is in the sequence exactly once.
NodesByTypeExact ==
    \A type \in Types :
       /\ \A node \in Range(getNodesByType(type)) : node.type = type
       /\ ~reinserted =>
             \A id \in DOMAIN nodes :
                nodes[id].type = type =>
                   Occurrences(getNodesByType(type), nodes[id]) = 1

\* C3: every stored node has its id in the type-index set of its type, in the
\* property-index set of (key, value) for every property it holds, and every
\* edge's target in the edge-index set keyed id:relationship.
IndexesCoverNodes ==
    \A id \in DOMAIN nodes :
       LET node == nodes[id]
       IN  /\ node.type \in DOMAIN typeIndex
           /\ id \in Range(typeIndex[node.type])
           /\ \A key \in DOMAIN node.properties :
                 /\ key \in DOMAIN propertyIndex
                 /\ node.properties[key] \in DOMAIN propertyIndex[key]
                 /\ id \in Range(propertyIndex[key][node.properties[key]])
           /\ \A i \in DOMAIN node.edges :
                 LET edgeKey == EdgeKey(id, node.edges[i].relationship)
                 IN  /\ edgeKey \in DOMAIN edgeIndex
                     /\ String(node.edges[i].target) \in Range(edgeIndex[edgeKey])

\* two nodes stored, one of them re-inserted under another type with an edge
IndexesCoverNodesWitness ==
    /\ Cardinality(DOMAIN nodes) = 2
    /\ reinserted
    /\ \E id \in DOMAIN nodes :
          /\ nodes[id].edges # <<>>
          /\ \E type \in DOMAIN typeIndex :
                type # nodes[id].type /\ id \in Range(typeIndex[type])

\* C8: after addNode(n), getNode of every id with n's string key returns n,
\* the integer id and its decimal string alike, and getNode of every other
\* id returns what it returned before.
GetNodeReturnsLatest ==
    [][\A node \in GraphNode :
          AddNode(node) =>
             /\ \A id \in Ids :
                   getNode(id)' =
                      IF String(id) = String(node.id) THEN node ELSE getNode(id)
             /\ getNode(Num(1))' = getNode(Str("1"))']_vars

\* the record stored under "1" was inserted with the integer 1 after an
\* earlier insertion under another type, and is read back under the string "1"
GetNodeReturnsLatestWitness ==
    /\ getNode(Str("1")) # Undefined
    /\ getNode(Str("1")).id = Num(1)
    /\ reinserted
    /\ \E type \in DOMAIN typeIndex :
          type # getNode(Str("1")).type /\ "1" \in Range(typeIndex[type])

(***************************************************************************)
(* Claims about traverse, checked under SpecTraverse                       *)
(***************************************************************************)
\* the ids one hop from a set of ids: the targets of the edges, with a
\* relationship of the list, of the stored nodes among them
OneHop(ids, relationships) ==
    UNION {{String(nodes[id].edges[i].target) :
               i \in {j \in DOMAIN nodes[id].edges :
                          nodes[id].edges[j].relationship \in Range(relationships)}} :
           id \in ids \cap DOMAIN nodes}

\* the ids at 1 to hops hops from a set of ids
RECURSIVE ReachableWithin(_, _, _)
ReachableWithin(ids, relationships, hops) ==
    IF hops <= 0 THEN {}
    ELSE OneHop(ids, relationships)
            \cup ReachableWithin(OneHop(ids, relationships), relationships, hops - 1)

\* C6: the result of traverse(s, R, d) never holds s, holds only stored nodes
\* reachable from s within d hops along edges with a relationship of R, and
\* holds no node twice.
TraverseSound ==
    ret.op = "traverse" =>
       LET rows == ret.rows
           start == String(ret.startNodeId)
       IN  /\ \A i \in DOMAIN rows : String(rows[i].id) # start
           /\ \A i \in DOMAIN rows :
                 /\ String(rows[i].id) \in
                       ReachableWithin({start}, ret.relationships, ret.maxDepth)
                 /\ rows[i] = MapGet(nodes, String(rows[i].id))
           /\ \A i, j \in DOMAIN rows :
                 i # j => String(rows[i].id) # String(rows[j].id)

\* a traversal over a cycle that leads back to the start node, with results
TraverseSoundWitness ==
    /\ ret.op = "traverse"
    /\ ret.rows # <<>>
    /\ String(ret.startNodeId) \in
          ReachableWithin({String(ret.startNodeId)}, ret.relationships,
                          ret.maxDepth)

\* the stored ids other than the start at 1 to hops hops from it
StoredWithin(start, relationships, hops) ==
    (ReachableWithin({start}, relationships, hops) \cap DOMAIN nodes) \ {start}

\* C29: traverse(s, R, d) returns every stored node other than s that is at
\* least 1 and at most d hops from s along edges with a relationship of R
\* through stored nodes; a node at depth d is returned and its edges are not
\* followed, and an edge to an id that is not stored adds nothing.
TraverseComplete ==
    ret.op = "traverse" =>
       LET start == String(ret.startNodeId)
       IN  /\ {String(ret.rows[i].id) : i \in DOMAIN ret.rows} =
                 StoredWithin(start, ret.relationships, ret.maxDepth)
           /\ \A id \in StoredWithin(start, ret.relationships, ret.maxDepth) :
                 \E i \in DOMAIN ret.rows : ret.rows[i] = nodes[id]

\* a call with maxDepth 1 has returned the node one hop away, and not the
\* stored node that is one hop further, behind an edge of the node returned
TraverseCompleteWitness ==
    /\ ret.op = "traverse"
    /\ ret.maxDepth = 1
    /\ Len(ret.rows) = 1
    /\ StoredWithin(String(ret.startNodeId), ret.relationships, 2) #
          StoredWithin(String(ret.startNodeId), ret.relationships, 1)

\* user:1 -HAS_ORDER-> order:101 -CONTAINS-> product:5, all three stored
OrderScenario ==
    /\ {String(User1), String(Order101), String(Product5)} \subseteq DOMAIN nodes
    /\ getNode(User1).edges = <<HasOrder(Order101)>>
    /\ getNode(Order101).edges = <<Contains(Product5)>>

\* C7 as claimed: in the scenario traverse(user:1, [HAS_ORDER], 2) returns
\* [order:101, product:5] and traverse(user:1, [HAS_ORDER], 1) returns
\* [order:101].
ScenarioTraverseAsClaimed ==
    (/\ OrderScenario
     /\ ret.op = "traverse"
     /\ ret.startNodeId = User1
     /\ ret.relationships = <<"HAS_ORDER">>) =>
        /\ ret.maxDepth = 2 => ret.rows = <<getNode(Order101), getNode(Product5)>>
        /\ ret.maxDepth = 1 => ret.rows = <<getNode(Order101)>>

\* C7 amended: in the scenario traverse(user:1, [HAS_ORDER], 2) returns only
\* [order:101], as traverse(user:1, [HAS_ORDER], 1) does; [order:101,
\* product:5] is what traverse(user:1, [HAS_ORDER, CONTAINS], 2) returns.
ScenarioTraverse ==
    (/\ OrderScenario
     /\ ret.op = "traverse"
     /\ ret.startNodeId = User1) =>
        /\ (ret.relationships = <<"HAS_ORDER">> /\ ret.maxDepth \in {1, 2}) =>
              ret.rows = <<getNode(Order101)>>
        /\ (ret.relationships = <<"HAS_ORDER", "CONTAINS">> /\ ret.maxDepth = 2) =>
              ret.rows = <<getNode(Order101), getNode(Product5)>>

\* the scenario's traverse(user:1, [HAS_ORDER], 2) has returned
ScenarioTraverseWitness ==
    /\ OrderScenario
    /\ ret.op = "traverse"
    /\ ret.startNodeId = User1
    /\ ret.relationships = <<"HAS_ORDER">>
    /\ ret.maxDepth = 2
    /\ ret.rows = <<getNode(Order101)>>

(***************************************************************************)
(* Claims about executeQuery, checked under SpecQuery                      *)
(***************************************************************************)
\* the step is the call executeQuery(query)
Executes(query) ==
    /\ ret'.op = "executeQuery"
    /\ ret'.query = query
    /\ ExecuteQuery(query)

\* the entry under the query's key is inside its TTL window
Alive(query) ==
    /\ CacheKey(query) \in DOMAIN cache
    /\ now - cache[CacheKey(query)].timestamp <= TTL

\* C4: an executeQuery whose key has an entry no older than the TTL returns
\* that entry's rows, which are the rows returned by the call that stored it,
\* without a scan and without touching the cache; any other executeQuery is
\* computed from the store as it is now and, when it returns rows, stores them
\* as a fresh entry; and an entry stays as it is until clear or until a lookup
\* of its key finds it expired.
CacheIdempotent ==
    [][/\ \A query \in Queries :
             Executes(query) =>
                IF Alive(query)
                THEN /\ ret'.hit
                     /\ ret'.error = "none"
                     /\ ret'.rows = cache[CacheKey(query)].data
                     /\ ret'.scans = 0
                     /\ cache' = cache
                ELSE /\ ~ret'.hit
                     /\ ret'.error = Evaluate(query).error
                     /\ ret'.error = "none" =>
                           /\ ret'.scans > 0
                           /\ ret'.rows = Evaluate(query).rows
                           /\ cache'[CacheKey(query)] =
                                 [data |-> ret'.rows, ttl |-> TTL, timestamp |-> now]
       /\ \A key \in DOMAIN cache :
             \/ key \in DOMAIN cache' /\ cache'[key] = cache[key]
             \/ Clear
             \/ \E query \in Queries :
                   /\ CacheKey(query) = key
                   /\ ~Alive(query)
                   /\ Executes(query)]_vars

\* a call served from the cache at the last instant of the TTL window, with
\* rows the store no longer gives
CacheIdempotentWitness ==
    /\ ret.op = "executeQuery"
    /\ ret.hit
    /\ CacheKey(ret.query) \in DOMAIN cache
    /\ now - cache[CacheKey(ret.query)].timestamp = TTL
    /\ ret.rows # <<>>
    /\ ret.rows # Evaluate(ret.query).rows

\* C5 as claimed: an executeQuery call that fails leaves the node collection,
\* the indexes and the cache exactly as they were.
FailedCallChangesNothing ==
    [][\A query \in Queries :
          (Executes(query) /\ ret'.error # "none") =>
             UNCHANGED <<nodes, typeIndex, edgeIndex, propertyIndex, cache>>]_vars

\* C5 amended: an executeQuery call that fails leaves the node collection and
\* the indexes as they were and writes no cache entry; the one change it can
\* make to the cache is the lookup's removal of the expired entry under the
\* call's own key.
FailedCallWritesNothing ==
    [][\A query \in Queries :
          (Executes(query) /\ ret'.error # "none") =>
             /\ UNCHANGED <<nodes, typeIndex, edgeIndex, propertyIndex>>
             /\ \/ cache' = cache
                \/ /\ CacheKey(query) \in DOMAIN cache
                   /\ ~Alive(query)
                   /\ cache' = MapDelete(cache, CacheKey(query))]_vars

\* a call has failed after its lookup removed the expired entry of its key
FailedCallWritesNothingWitness ==
    /\ ret.op = "executeQuery"
    /\ ret.error # "none"
    /\ ret.evicted
    /\ CacheKey(ret.query) \notin DOMAIN cache
    /\ nodes # EmptyMap

\* the WHERE clause of the query carries a start identity
HasStart(query) == Get(query.where, "start") # Undefined

\* C9: a GRAPH_TRAVERSE executeQuery fails with the missing-parameter error
\* exactly when the WHERE clause carries no start identity, and with a start
\* it returns what traverse returns from that start.
TraverseNeedsStart ==
    [][\A query \in Queries :
          (query.operation = "GRAPH_TRAVERSE" /\ Executes(query)) =>
             /\ ret'.error = "GRAPH_TRAVERSE requires start node"
                   <=> ~HasStart(query)
             /\ (HasStart(query) /\ ~ret'.hit) =>
                   ret'.rows = traverse(Get(query.where, "start"), PathOf(query),
                                        DefaultMaxDepth)]_vars

Implemented == {"FETCH", "GRAPH_TRAVERSE"}

\* C10: an executeQuery whose operation is neither FETCH nor GRAPH_TRAVERSE
\* fails with the unsupported-operation error, is not answered from the cache
\* and scans nothing, and the cache never holds an entry under its key.
UnsupportedOperationThrows ==
    /\ (ret.op = "executeQuery" /\ ret.query.operation \notin Implemented) =>
          /\ ret.error = "Unsupported operation: " \o ret.query.operation
          /\ ~ret.hit
          /\ ret.rows = <<>>
          /\ ret.scans = 0
    /\ \A query \in Queries :
          query.operation \notin Implemented => CacheKey(query) \notin DOMAIN cache

\* an operation outside the Query type was refused while the store held nodes
\* and the cache held results
UnsupportedOperationThrowsWitness ==
    /\ ret.op = "executeQuery"
    /\ ret.query.operation = "MERGE"
    /\ ret.error = "Unsupported operation: MERGE"
    /\ nodes # EmptyMap
    /\ cache # EmptyMap

\* C23: a step that adds a node leaves every cache entry as it is, and an
\* executeQuery whose key has an entry returns that entry's rows, whatever the
\* store gives now, unless the entry has outlived the TTL; so only the expiry
\* of the entry or clear lets the query see the added node.
StaleUntilExpiryOrClear ==
    [][/\ (nodes' # nodes /\ nodes' # EmptyMap) => cache' = cache
       /\ \A query \in Queries :
             (Executes(query) /\ CacheKey(query) \in DOMAIN cache) =>
                \/ /\ ret'.hit
                   /\ ret'.rows = cache[CacheKey(query)].data
                \/ now - cache[CacheKey(query)].timestamp > TTL]_vars

\* a call answered inside the TTL with the rows of before an addNode: the
\* store now gives more rows than the call returned
StaleUntilExpiryOrClearWitness ==
    /\ ret.op = "executeQuery"
    /\ ret.hit
    /\ CacheKey(ret.query) \in DOMAIN cache
    /\ now - cache[CacheKey(ret.query)].timestamp < TTL
    /\ Len(Evaluate(ret.query).rows) > Len(ret.rows)

\* the keys of the entries that have outlived the TTL
Outlived == {key \in DOMAIN cache : now - cache[key].timestamp > TTL}

\* C31: an entry is served while its age is at most the TTL of 300000 ms; an
\* entry older than that stays in the cache, counted in getStats().cacheSize,
\* through every step but clear and the executeQuery that looks up its key,
\* and that call deletes it and computes the rows from the store.
LazyExpiry ==
    [][/\ \A key \in DOMAIN cache :
             \/ key \in DOMAIN cache' /\ cache'[key] = cache[key]
             \/ Clear
             \/ \E query \in Queries :
                   /\ CacheKey(query) = key
                   /\ key \in Outlived
                   /\ Executes(query)
       /\ \A query \in Queries :
             (Executes(query) /\ CacheKey(query) \in DOMAIN cache) =>
                IF now - cache[CacheKey(query)].timestamp <= 300000
                THEN ret'.hit /\ ~ret'.evicted
                ELSE /\ ~ret'.hit
                     /\ ret'.evicted
                     /\ ret'.error = Evaluate(query).error
                     /\ ret'.rows = Evaluate(query).rows
                     /\ ret'.error # "none" =>
                           /\ CacheKey(query) \notin DOMAIN cache'
                           /\ getStats'.cacheSize = getStats.cacheSize - 1
       /\ (Outlived # {} /\ ~Clear
             /\ \A query \in Queries :
                   Executes(query) => CacheKey(query) \notin Outlived) =>
             /\ Outlived \subseteq DOMAIN cache'
             /\ getStats'.cacheSize >= getStats.cacheSize
             /\ getStats.cacheSize >= Cardinality(Outlived)]_vars

\* an entry that has outlived the TTL is still in the cache, and counted,
\* after a call of another query
LazyExpiryWitness ==
    /\ ret.op = "executeQuery"
    /\ \E key \in Outlived : key # CacheKey(ret.query)
    /\ getStats.cacheSize >= 2

(***************************************************************************)
(* Claims about the query pipeline, checked under SpecPipeline             *)
(***************************************************************************)
\* an executeQuery call has returned rows
Answered == ret.op = "executeQuery" /\ ret.error = "none"

\* the rows of the call's query after FETCH and FILTER, after SORT as well,
\* and those that reach COMPUTE, as the engine computes them
Filtered(query) ==
    Evaluate([query EXCEPT !.sort = Undefined, !.limit = Undefined,
                           !.compute = Undefined]).rows
Ordered(query) ==
    Evaluate([query EXCEPT !.limit = Undefined, !.compute = Undefined]).rows
Fed(query) == Evaluate([query EXCEPT !.compute = Undefined]).rows

\* the first n entries of a sequence
First(n, rows) == SubSeq(rows, 1, IF n < Len(rows) THEN n ELSE Len(rows))

\* the filtered and sorted rows cut to the limit of the query, when it has one
Limited(query) ==
    IF query.limit = Undefined THEN Ordered(query)
    ELSE First(query.limit.n, Ordered(query))

\* C11: when the Query carries a limit n, the rows that executeQuery returns,
\* or aggregates when there is a COMPUTE clause, are the first n entries of
\* the filtered and sorted sequence, so at most n, for every n >= 0.
LimitTruncates ==
    (Answered /\ ret.query.limit # Undefined) =>
       IF ret.query.compute = Undefined
       THEN /\ Len(ret.rows) <= ret.query.limit.n
            /\ ret.rows = Limited(ret.query)
       ELSE ret.rows = applyCompute(Limited(ret.query), ret.query.compute).rows

\* the total of every row is a number
AllNumeric(rows) ==
    \A i \in DOMAIN rows : PropertyOf(rows[i], "total").kind = "number"

\* the totals of the rows
TotalsOf(rows) == {PropertyOf(rows[i], "total").n : i \in DOMAIN rows}

\* C12: over a row set that is not empty and whose totals are all numbers,
\* MIN(total) is the smallest total and MAX(total) the largest, also when
\* totals are 0 or negative.
MinMaxExtreme ==
    (Answered /\ ret.query.compute = ComputeAll) =>
       LET rows == Fed(ret.query)
       IN  (rows # <<>> /\ AllNumeric(rows)) =>
              /\ Get(ret.rows[1], "min").kind = "number"
              /\ Get(ret.rows[1], "max").kind = "number"
              /\ Get(ret.rows[1], "min").n \in TotalsOf(rows)
              /\ Get(ret.rows[1], "max").n \in TotalsOf(rows)
              /\ \A total \in TotalsOf(rows) :
                    /\ Get(ret.rows[1], "min").n <= total
                    /\ total <= Get(ret.rows[1], "max").n

\* the keys of an object, in order
KeysOf(object) == [i \in DOMAIN object.entries |-> object.entries[i].key]

\* C13: with a COMPUTE clause executeQuery returns exactly one row with one
\* field per compute entry, however many rows were aggregated, and every
\* COUNT field is the number of rows left after filter, sort and limit,
\* whatever field the expression names.
ComputeGivesOneRow ==
    (Answered /\ ret.query.compute # Undefined) =>
       /\ Len(ret.rows) = 1
       /\ KeysOf(ret.rows[1]) = KeysOf(ret.query.compute)
       /\ \A i \in DOMAIN ret.query.compute.entries :
             LET entry == ret.query.compute.entries[i]
             IN  Get(entry.value, "function") = Str("COUNT") =>
                    Get(ret.rows[1], entry.key) = Num(Len(Limited(ret.query)))

\* C14: over zero rows COUNT is 0, SUM is 0, MIN is positive infinity and MAX
\* is negative infinity.
EmptyAggregates ==
    (Answered /\ ret.query.compute = ComputeAll /\ Fed(ret.query) = <<>>) =>
       /\ Get(ret.rows[1], "count") = Num(0)
       /\ Get(ret.rows[1], "n") = Num(0)
       /\ Get(ret.rows[1], "sum") = Num(0)
       /\ Get(ret.rows[1], "min") = PlusInfinity
       /\ Get(ret.rows[1], "max") = MinusInfinity

\* the aggregates of a store that holds orders, none of which passes the filter
EmptyAggregatesWitness ==
    /\ Answered
    /\ ret.query.compute = ComputeAll
    /\ ret.query.filter # Undefined
    /\ getNodesByType("order") # <<>>
    /\ Fed(ret.query) = <<>>
    /\ Get(ret.rows[1], "min") = PlusInfinity
    /\ Get(ret.rows[1], "count") = Num(0)

\* the sum of the totals of the rows, a row without a number counting as 0
RECURSIVE SumOfTotals(_)
SumOfTotals(rows) ==
    IF rows = <<>> THEN 0
    ELSE SumOfTotals(Tail(rows))
            + (IF PropertyOf(Head(rows), "total").kind = "number"
               THEN PropertyOf(Head(rows), "total").n ELSE 0)

\* value is the quotient sum / count
IsQuotient(value, sum, count) ==
    \/ value.kind = "number" /\ value.n * count = sum
    \/ value.kind = "fraction" /\ value.den > 0 /\ value.num * count = sum * value.den

\* C15: AVG over zero rows is NaN, never 0, and over a row set that is not
\* empty it is the SUM of the property divided by the number of rows.
AvgIsSumOverCount ==
    (Answered /\ ret.query.compute = ComputeAll) =>
       LET rows == Fed(ret.query)
       IN  IF rows = <<>> THEN Get(ret.rows[1], "avg") = NaN
           ELSE IsQuotient(Get(ret.rows[1], "avg"), SumOfTotals(rows), Len(rows))

\* AVG(total) of FETCH order on a store that holds only users
AvgIsSumOverCountWitness ==
    /\ Answered
    /\ ret.query.compute = ComputeAll
    /\ ret.query.target = "order"
    /\ getNodesByType("user") # <<>>
    /\ Fed(ret.query) = <<>>
    /\ Get(ret.rows[1], "avg") = NaN

\* spec scenario 2: the orders with totals 100, 200 and 300
Scenario2Orders ==
    <<PipelineNode(1, "order", "total" :> Num(100)),
      PipelineNode(2, "order", "total" :> Num(200)),
      PipelineNode(3, "order", "total" :> Num(300))>>

\* FETCH order COMPUTE {total: SUM(total)}, as a Query value and as parsed
SumQueries ==
    {Fetching("order", Undefined, Only("total", Expr("SUM", Str("total"))),
              Undefined, Undefined, Undefined),
     parse(Texts.sum).query}

\* C16: SUM is the sum of the property over the rows, a row that lacks it
\* counting as zero; on orders with totals 100, 200 and 300, FETCH order with
\* COMPUTE {total: SUM(total)} returns the one row {total: 600}.
SumCountsMissingAsZero ==
    /\ (Answered /\ ret.query.compute = ComputeAll) =>
          Get(ret.rows[1], "sum") = Num(SumOfTotals(Fed(ret.query)))
    /\ (Answered /\ ret.query.compute = Only("total", Expr("SUM", Str("total")))) =>
          Get(ret.rows[1], "total") = Num(SumOfTotals(Fed(ret.query)))
    /\ (Answered /\ ret.query \in SumQueries
           /\ getNodesByType("order") = Scenario2Orders) =>
          ret.rows = <<Object(<<Entry("total", Num(600))>>)>>

\* scenario 2, with the query text parsed and its Query executed
SumCountsMissingAsZeroWitness ==
    /\ Answered
    /\ ret.query = parse(Texts.sum).query
    /\ getNodesByType("order") = Scenario2Orders
    /\ ret.rows = <<Object(<<Entry("total", Num(600))>>)>>

\* the query has a WHERE clause and no other, or a FILTER clause and no other
OnlyWhere(query) ==
    /\ query.operation = "FETCH"
    /\ query.where # Undefined
    /\ query.filter = Undefined /\ query.sort = Undefined
    /\ query.limit = Undefined /\ query.compute = Undefined
OnlyFilter(query) ==
    /\ query.operation = "FETCH"
    /\ query.filter # Undefined
    /\ query.where = Undefined /\ query.sort = Undefined
    /\ query.limit = Undefined /\ query.compute = Undefined

\* the node's value equals the clause value on every field of the clause
EqualsOnEveryField(node, clause) ==
    \A i \in DOMAIN clause.entries :
       PropertyOf(node, clause.entries[i].key) = clause.entries[i].value

\* C17: a FETCH with a WHERE clause returns exactly the nodes of the target
\* type whose property equals the clause value on every field, for boolean,
\* number, date and string values; on users 1 (active) and 2 (inactive),
\* WHERE status = active returns exactly the row of user 1.
WhereKeepsEqual ==
    (Answered /\ OnlyWhere(ret.query)) =>
       LET Matches(node) == EqualsOnEveryField(node, ret.query.where)
       IN  ret.rows = SelectSeq(getNodesByType(ret.query.target), Matches)

\* the comparison a marker stands for holds between the node's value and the
\* marker's value
MarkerHolds(op, nodeValue, value) ==
    CASE op = "$gt" -> JsLess(value, nodeValue)
      [] op = "$gte" -> JsLess(value, nodeValue) \/ nodeValue = value
      [] op = "$lt" -> JsLess(nodeValue, value)
      [] op = "$lte" -> JsLess(nodeValue, value) \/ nodeValue = value
      [] op = "$ne" -> nodeValue # value
      [] OTHER -> TRUE

\* the node satisfies the condition of every field of the FILTER clause
SatisfiesEveryField(node, clause) ==
    \A i \in DOMAIN clause.entries :
       LET nodeValue == PropertyOf(node, clause.entries[i].key)
           condition == clause.entries[i].value
       IN  IF condition.kind = "object"
           THEN \A j \in DOMAIN condition.entries :
                   MarkerHolds(condition.entries[j].key, nodeValue,
                               condition.entries[j].value)
           ELSE nodeValue = condition

\* C18: with a FILTER clause a node is kept exactly when it satisfies the
\* condition of every field: the comparison of a marker, equality for a bare
\* boolean, number, string or date.
FilterKeepsSatisfying ==
    (Answered /\ OnlyFilter(ret.query)) =>
       LET Satisfies(node) == SatisfiesEveryField(node, ret.query.filter)
       IN  ret.rows = SelectSeq(getNodesByType(ret.query.target), Satisfies)

Scenario4Texts == {Texts.scenario4, Texts.scenario4Lines}

\* C19: parsing FETCH product with the FILTER entry price > 100 gives a Query
\* whose filter for price is the marker $gt 100, and executing it on products
\* priced 50, 150 and 300 returns exactly the rows of 150 and 300.
Scenario4 ==
    /\ (ret.op = "parse" /\ ret.text \in Scenario4Texts) =>
          /\ ret.error = "none"
          /\ Get(ret.query.filter, "price") = Only("$gt", Num(100))
    /\ (Answered /\ ret.query \in {parse(text).query : text \in Scenario4Texts}
           /\ getNodesByType("product") = ProductStore) =>
          ret.rows = SubSeq(ProductStore, 2, 3)

\* the place of a row in a sequence of distinct rows
PlaceOf(rows, row) == CHOOSE i \in DOMAIN rows : rows[i] = row

\* the query sorts and neither cuts nor aggregates
OnlySorts(query) ==
    /\ query.sort # Undefined
    /\ query.limit = Undefined
    /\ query.compute = Undefined

\* C20: sorting puts the rows in the order asked for, and rows with the same
\* value of the sort field stay in the order they had before the sort, for ASC
\* and for DESC alike.
SortIsStable ==
    (Answered /\ OnlySorts(ret.query)) =>
       LET before == Filtered(ret.query)
           after == ret.rows
           Total(i) == PropertyOf(after[i], "total").n
       IN  AllNumeric(before) =>
              /\ Len(after) = Len(before)
              /\ Range(after) = Range(before)
              /\ \A i, j \in DOMAIN after :
                    i < j =>
                       /\ IF Get(ret.query.sort, "order") = Str("DESC")
                          THEN Total(i) >= Total(j)
                          ELSE Total(i) <= Total(j)
                       /\ Total(i) = Total(j) =>
                             PlaceOf(before, after[i]) < PlaceOf(before, after[j])

\* a descending sort has moved a row past two rows that tie, and the two are
\* still in the order of their insertion
SortIsStableWitness ==
    /\ Answered
    /\ OnlySorts(ret.query)
    /\ Get(ret.query.sort, "order") = Str("DESC")
    /\ Len(ret.rows) = 3
    /\ AllNumeric(ret.rows)
    /\ ret.rows # Filtered(ret.query)
    /\ PropertyOf(ret.rows[2], "total") = PropertyOf(ret.rows[3], "total")
    /\ ret.rows[2].id = Num(1)
    /\ ret.rows[3].id = Num(2)

\* the computed row satisfies the condition of every field of the FILTER clause
RowSatisfies(row, clause) ==
    \A i \in DOMAIN clause.entries :
       LET value == Get(row, clause.entries[i].key)
           condition == clause.entries[i].value
       IN  IF condition.kind = "object"
           THEN \A j \in DOMAIN condition.entries :
                   MarkerHolds(condition.entries[j].key, value,
                               condition.entries[j].value)
           ELSE value = condition

\* C21: when a Query has both a COMPUTE and a FILTER clause, the FILTER is
\* evaluated against the row of fields that COMPUTE produces, not against the
\* properties of the nodes before aggregation: the result is the aggregate of
\* the unfiltered rows, kept or dropped by the FILTER.
FilterIsPostAggregate ==
    (Answered /\ ret.query.compute # Undefined /\ ret.query.filter # Undefined) =>
       LET aggregated == Evaluate([ret.query EXCEPT !.filter = Undefined]).rows
           Satisfies(row) == RowSatisfies(row, ret.query.filter)
       IN  ret.rows = SelectSeq(aggregated, Satisfies)

\* C22: parsing a text whose operation keyword is not one the parser knows
\* gives no parse error, and executing the Query it returns fails with the
\* unsupported-operation error.
UnknownOperationSurfaces ==
    /\ (ret.op = "parse" /\ ret.text = Texts.unknownOperation) =>
          ret.error = "none"
    /\ (ret.op = "executeQuery"
           /\ ret.query = parse(Texts.unknownOperation).query) =>
          ret.error = "Unsupported operation: MERGE"

(***************************************************************************)
(* Claims about a caller's session, checked under SpecSession              *)
(***************************************************************************)
\* what getStats reports of an empty engine
NoStats ==
    [totalNodes |-> 0, nodesByType |-> EmptyMap, cacheSize |-> 0,
     indexes |-> [types |-> 0, properties |-> 0, edges |-> 0]]

\* clear leaves nothing behind: the statistics are all zero and no id that
\* was stored is found
ClearLeavesNothing ==
    Clear =>
       /\ getStats' = NoStats
       /\ \A key \in DOMAIN nodes : getNode(Str(key))' = Undefined

\* C24 as claimed: right after clear getStats reports zero nodes, zero cache
\* entries and zero index cardinalities, getNode finds no id, and until the
\* next addNode every FETCH query returns no rows.
ClearEmptiesAll ==
    [][/\ ClearLeavesNothing
       /\ \A query \in SessionQueries :
             (nodes = EmptyMap /\ Executes(query)) =>
                /\ ret'.error = "none"
                /\ ret'.rows = <<>>]_vars

\* C24 amended: right after clear getStats reports zero nodes, zero cache
\* entries and zero index cardinalities, getNode finds no id, and until the
\* next addNode every FETCH query without a COMPUTE clause returns no rows,
\* while one with a COMPUTE clause returns the one row of aggregates over zero
\* rows.
ClearEmptiesStore ==
    [][/\ ClearLeavesNothing
       /\ \A query \in SessionQueries :
             (nodes = EmptyMap /\ Executes(query)) =>
                /\ ret'.error = "none"
                /\ ret'.rows = IF query.compute = Undefined THEN <<>>
                               ELSE applyCompute(<<>>, query.compute).rows
                /\ Len(ret'.rows) = IF query.compute = Undefined THEN 0 ELSE 1]_vars

\* clear has emptied a store of two users whose rows the last call had
\* returned and cached
ClearEmptiesStoreWitness ==
    /\ nodes = EmptyMap
    /\ cache = EmptyMap
    /\ getStats = NoStats
    /\ ret.op = "executeQuery"
    /\ ~ret.hit
    /\ Len(ret.rows) = 2

(***************************************************************************)
(* Claims about arrays handed out, checked under SpecHandedOut             *)
(***************************************************************************)
\* the rows an executeQuery(query) called now returns
AnswerOf(query) ==
    IF Alive(query) THEN cache[CacheKey(query)].data ELSE Evaluate(query).rows

\* C26: the rows a call has handed out are not changed by a later addNode (of
\* a new id or of a stored one) or clear, and a caller's write to the array a
\* call returned does not change what executeQuery returns for any query from
\* then on.
ResultsAreSnapshots ==
    [][/\ (Clear \/ nodes' # nodes) => ret' = ret
       /\ CallerMutates =>
             \A query \in SessionQueries : AnswerOf(query)' = AnswerOf(query)]_vars

(***************************************************************************)
(* Claims about vectorSearch, checked under SpecVector                     *)
(***************************************************************************)
\* the fraction x is at least the fraction y
AtLeast(x, y) == x.num * y.den >= y.num * x.den

\* the vector has no component other than 0
ZeroVector(v) == \A i \in DOMAIN v : v[i] = 0

\* C28: vectorSearch returns only stored nodes that have an embedding, that
\* are of the type given when one is given, and whose cosine similarity to the
\* query vector is at least the threshold; the rows come by falling
\* similarity and are at most limit; and the similarity of a vector with a
\* zero vector or with a vector of another length is 0.
VectorSearchContract ==
    ret.op = "vectorSearch" =>
       LET rows == ret.rows
           query == ret.queryEmbedding.items
           SimilarityOf(node) == cosineSimilarity(query, node.embedding.items)
       IN  /\ \A i \in DOMAIN rows :
                 /\ rows[i] = getNode(rows[i].id)
                 /\ rows[i].embedding # Undefined
                 /\ Truthy(ret.type) => rows[i].type = ret.type.s
                 /\ AtLeast(SimilarityOf(rows[i]), ret.threshold)
                 /\ (ZeroVector(query) \/ ZeroVector(rows[i].embedding.items)
                       \/ Len(query) # Len(rows[i].embedding.items)) =>
                       SimilarityOf(rows[i]).num = 0
           /\ \A i, j \in DOMAIN rows :
                 i < j => AtLeast(SimilarityOf(rows[i]), SimilarityOf(rows[j]))
           /\ Len(rows) <= ret.limit

(***************************************************************************)
(* More claims about the query pipeline, checked under SpecPipeline        *)
(***************************************************************************)
\* the clause is absent or has at least one entry
AbsentOrFilled(clause) ==
    \/ clause = Undefined
    \/ clause.kind = "object" /\ clause.entries # <<>>

\* C25: the Query that parse returns has no empty clause object: where,
\* compute and filter are each absent or a mapping with at least one entry,
\* and a text whose sections have no entry, or only entries the parser does
\* not take, gives absent clauses.
NoEmptyClause ==
    (ret.op = "parse" /\ ret.error = "none") =>
       /\ AbsentOrFilled(ret.query.where)
       /\ AbsentOrFilled(ret.query.compute)
       /\ AbsentOrFilled(ret.query.filter)
       /\ ret.text = Texts.emptySections =>
             /\ ret.query.where = Undefined
             /\ ret.query.compute = Undefined
             /\ ret.query.filter = Undefined
       /\ ret.text = Texts.scenario4Lines => ret.query.filter = Undefined

\* the text with three sections without entries has been parsed
NoEmptyClauseWitness ==
    /\ ret.op = "parse"
    /\ ret.error = "none"
    /\ ret.text = Texts.emptySections
    /\ ret.query.where = Undefined
    /\ ret.query.target = "user"

\* C27: a SORT BY line gives a sort clause for its field whether or not a
\* direction follows the field: ASC or DESC when it is written, ASC when it is
\* left out.
SortDirectionOptional ==
    ret.op = "parse" =>
       /\ ret.text = Texts.sortAsc => ret.query.sort = SortOn("total", "ASC")
       /\ ret.text = Texts.limitOne => ret.query.sort = SortOn("total", "DESC")
       /\ ret.text = Texts.sortNoDirection =>
             ret.query.sort = SortOn("total", "ASC")

\* C30: in a brace-balanced text whose sections are each opened by the header
\* line and closed by a } line, the key: value lines of a section go to the
\* value parser of that section and to no other: the WHERE entry becomes a
\* where value, the FILTER entry after it a filter condition and a COMPUTE
\* entry a compute expression, also when the opening brace of the operation
\* block is on a line of its own.
SectionsDispatched ==
    ret.op = "parse" =>
       /\ ret.text \in {Texts.twoSections, Texts.braceOwnLine} =>
             /\ ret.error = "none"
             /\ ret.query.where = Only("status", Str("active"))
             /\ ret.query.filter = Only("flag", Only("$ne", Num(1)))
             /\ ret.query.compute = Undefined
       /\ ret.text = Texts.sum =>
             /\ ret.error = "none"
             /\ ret.query.compute = Only("total", Expr("SUM", Str("total")))
             /\ ret.query.where = Undefined
             /\ ret.query.filter = Undefined

(***************************************************************************)
(* Claims about the operations together, checked under SpecReads           *)
(***************************************************************************)
\* C32: two Query values that differ in a field (a where value or its kind,
\* date or string; a limit) have different cache keys, so the entry that a
\* cache hit returns can only have been stored by a call of an equal Query.
KeysTellQueriesApart ==
    [][\A query \in ReadQueries :
          (Executes(query) /\ ret'.hit) =>
             \A other \in ReadQueries :
                CacheKey(other) = CacheKey(query) => other = query]_vars

\* C36: a call of getNode, getNodesByType, findNodesByProperty, traverse,
\* vectorSearch or getStats leaves the nodes, the three indexes and the cache
\* as they were, and a call of executeQuery leaves the nodes and the three
\* indexes as they were.
ReadsChangeNothing ==
    [][/\ (/\ ret' # ret
           /\ ret'.op \in {"getNode", "getNodesByType", "findNodesByProperty",
                           "traverse", "vectorSearch", "getStats"})
          => UNCHANGED <<nodes, typeIndex, edgeIndex, propertyIndex, cache>>
       /\ (\E query \in ReadQueries : Executes(query))
          => UNCHANGED <<nodes, typeIndex, edgeIndex, propertyIndex>>]_vars

\* a traversal that returned a node, made while the cache holds an entry that
\* has outlived its TTL
ReadsChangeNothingWitness ==
    /\ ret.op = "traverse"
    /\ Len(ret.value) = 1
    /\ Outlived # {}

(***************************************************************************)
(* More claims about the store, checked under Spec                         *)
(***************************************************************************)
\* C33: in every state of the store a FETCH on a type with the one WHERE
\* entry key = value returns the nodes that findNodesByProperty(key, value)
\* returns, those of another type left out.
FetchAgreesWithIndex ==
    \A type \in Types : \A key \in PropKeys : \A value \in PropValues :
       Range(Evaluate(Fetching(type, Only(key, value), Undefined, Undefined,
                               Undefined, Undefined)).rows)
          = {node \in Range(findNodesByProperty(key, value)) : node.type = type}

\* C37: in every state the counts per type that getStats reports add up to
\* totalNodes, and the count of a type is the number of stored nodes of that
\* type.
StatsCountNodes ==
    LET stats == getStats
        RECURSIVE Total(_)
        Total(types) ==
            IF types = {} THEN 0
            ELSE LET type == CHOOSE t \in types : TRUE
                 IN  stats.nodesByType[type] + Total(types \ {type})
    IN  /\ Total(DOMAIN stats.nodesByType) = stats.totalNodes
        /\ \A type \in DOMAIN stats.nodesByType :
              stats.nodesByType[type]
                 = Cardinality({id \in DOMAIN nodes : nodes[id].type = type})

TraverseTerminates ==
    /\ [][(ret.op = "traversing" /\ ret'.op = "traversing") =>
             /\ ret.visited \subseteq ret'.visited
             /\ (\/ ret'.visited # ret.visited
                 \/ ret'.results # ret.results
                 \/ Len(ret'.queue) >= Len(ret.queue))
                => /\ Head(ret.queue).nodeId \notin ret.visited
                   /\ ret'.visited = ret.visited \cup {Head(ret.queue).nodeId}]_vars
    /\ (ret.op = "traversing") ~> (ret.op = "traversing" /\ ret.queue = <<>>)
    /\ (ret.op = "traversing") ~> (ret.op = "traverse")

\* a call that returned a node from a store with an edge back to the start
\* and a self-loop or a parallel edge
TraverseTerminatesWitness ==
    /\ ret.op = "traverse"
    /\ Len(ret.rows) = 1
    /\ String(ret.startNodeId)
          \in OneHop({String(ret.rows[i].id) : i \in DOMAIN ret.rows},
                     ret.relationships)
    /\ \E id \in DOMAIN nodes :
          \/ id \in OneHop({id}, ret.relationships)
          \/ \E i, j \in DOMAIN nodes[id].edges :
                i # j /\ nodes[id].edges[i] = nodes[id].edges[j]

\* C35: traverse collects its nodes in breadth-first order: a node is
\* collected at the depth that is its least number of hops from the start,
\* after nodes that are no farther, and the rows returned are the nodes
\* collected, in that order.
BreadthFirst ==
    [][ret.op = "traversing" =>
          LET start == String(ret.startNodeId)
              Within(hops) == ReachableWithin({start}, ret.relationships, hops)
              Distance(id) == CHOOSE hops \in 1..ret.maxDepth :
                                 /\ id \in Within(hops)
                                 /\ id \notin Within(hops - 1)
              Sorted(rows) ==
                 \A i, j \in DOMAIN rows :
                    i < j => Distance(String(rows[i].id))
                                <= Distance(String(rows[j].id))
          IN  /\ (ret'.op = "traversing" /\ ret'.results # ret.results) =>
                    LET nodeId == Head(ret.queue).nodeId
                    IN  /\ ret'.results = Append(ret.results, nodes[nodeId])
                        /\ nodeId \in Within(ret.maxDepth)
                        /\ Head(ret.queue).depth = Distance(nodeId)
                        /\ \A i \in DOMAIN ret.results :
                              String(ret.results[i].id) # nodeId
                        /\ Sorted(ret'.results)
              /\ ret'.op = "traverse" =>
                    /\ ret'.rows = ret.results
                    /\ ret'.rows = traverse(ret.startNodeId, ret.relationships,
                                            ret.maxDepth)
                    /\ Sorted(ret'.rows)]_vars

\* a call that returned two nodes, both one hop from the start, the second
\* also two hops from it through the first
BreadthFirstWitness ==
    /\ ret.op = "traverse"
    /\ Len(ret.rows) = 2
    /\ {String(ret.rows[1].id), String(ret.rows[2].id)}
          \subseteq OneHop({String(ret.startNodeId)}, ret.relationships)
    /\ String(ret.rows[2].id) \in OneHop({String(ret.rows[1].id)}, ret.relationships)

====
